---- MODULE Spec2Model ----
(***************************************************************************)
(* Reed-Solomon codec of galois (galois/code/reed_solomon.py) with the     *)
(* polynomial and matrix kernels of galois/meta_mixin_jit.py.              *)
(*                                                                         *)
(* Field elements are integers in 0..q-1.  Arrays are sequences (1-based), *)
(* polynomials are coefficient sequences in descending degree, matrices    *)
(* are sequences of rows.                                                  *)
(***************************************************************************)
EXTENDS Integers, Sequences, FiniteSets, TLC

\* ------------------------------------------------------------------ bounds
MaxC == 2        \* first consecutive root powers c tried: 0..MaxC
MaxWeight == 3   \* symbol errors injected into one codeword: 0..MaxWeight
MaxSeed == 1     \* messages tried per codec: seeds 0..MaxSeed
MaxBatch == 2    \* rows of a decoded batch: 1..MaxBatch

\* ------------------------------------------------------- integer helpers
Min(a, b) == IF a <= b THEN a ELSE b

\* Python's floor division and modulo by a positive divisor
FloorDiv(a, d) == IF a >= 0 THEN a \div d ELSE -((-a + d - 1) \div d)

PyMod(a, d) == a - d * FloorDiv(a, d)

\* ------------------------------------------------------ field descriptor
IsPrime(x) == x > 1 /\ \A d \in 2 .. (x - 1) : x % d # 0

\* prime_factors(x): the distinct primes of x (the list p) ...
PrimeList(x) == {d \in 2 .. x : IsPrime(d) /\ x % d = 0}

\* ... and the multiplicity of the prime d in x (the list m)
RECURSIVE Multiplicity(_, _)
Multiplicity(x, d) == IF x % d # 0 THEN 0 ELSE 1 + Multiplicity(x \div d, d)

IsPrimePower(x) == x > 1 /\ Cardinality(PrimeList(x)) = 1

Characteristic(q) == CHOOSE p \in PrimeList(q) : TRUE

Degree(q) == Multiplicity(q, Characteristic(q))

\* matlab_primitive_poly(p, m) as an integer (coefficients base p), for the
\* extension fields within reach of the bounds
IrreduciblePoly(q) ==
    CASE q = 4 -> 7
      [] q = 8 -> 11
      [] q = 9 -> 14
      [] q = 16 -> 19
      [] OTHER -> q

\* codeword sizes n the constructor is tried with: n + 1 = 2, 3, 4, 5 are
\* prime powers (prime fields and GF(2^2)), n + 1 = 6 is not
CodewordSizes == 1 .. 5

\* the two-error-correcting code RS(6, 2) over GF(7), explored on its own
WideCode == <<6, 2>>

WideField == 13
Orders == {q \in {n + 1 : n \in CodewordSizes \cup {WideCode[1]}} \cup {WideField} : IsPrimePower(q)}

\* ---------------------------------------------------- field element kernel
\* digit-wise (coefficient-wise) arithmetic mod p on the base-p digits
RECURSIVE DigitAdd(_, _, _)
DigitAdd(p, a, b) ==
    IF a = 0 /\ b = 0 THEN 0
    ELSE (((a % p) + (b % p)) % p) + p * DigitAdd(p, a \div p, b \div p)

RECURSIVE DigitScale(_, _, _)
DigitScale(p, s, a) ==
    IF a = 0 THEN 0 ELSE ((s * (a % p)) % p) + p * DigitScale(p, s, a \div p)

DigitNeg(p, a) == DigitScale(p, p - 1, a)

\* a * x modulo the irreducible polynomial
TimesX(q, a) ==
    LET p == Characteristic(q)
        lead == (a * p) \div q
        rest == (a * p) % q
        low == IrreduciblePoly(q) - q
    IN  DigitAdd(p, rest, DigitNeg(p, DigitScale(p, lead, low)))

RECURSIVE MultiplyCalc(_, _, _)
MultiplyCalc(q, a, b) ==
    LET p == Characteristic(q)
    IN  IF b = 0 THEN 0
        ELSE DigitAdd(p, DigitScale(p, b % p, a), TimesX(q, MultiplyCalc(q, a, b \div p)))

AddTable ==
    [q \in Orders |-> [a \in 0 .. (q - 1) |-> [b \in 0 .. (q - 1) |->
        IF Degree(q) = 1 THEN (a + b) % q ELSE DigitAdd(Characteristic(q), a, b)]]]

NegTable ==
    [q \in Orders |-> [a \in 0 .. (q - 1) |->
        IF Degree(q) = 1 THEN (q - a) % q ELSE DigitNeg(Characteristic(q), a)]]

MultiplyTable ==
    [q \in Orders |-> [a \in 0 .. (q - 1) |-> [b \in 0 .. (q - 1) |->
        IF Degree(q) = 1 THEN (a * b) % q ELSE MultiplyCalc(q, a, b)]]]

ADD(q, a, b) == AddTable[q][a][b]

SUBTRACT(q, a, b) == AddTable[q][a][NegTable[q][b]]

MULTIPLY(q, a, b) == MultiplyTable[q][a][b]

ReciprocalTable ==
    [q \in Orders |-> [a \in 1 .. (q - 1) |->
        CHOOSE b \in 1 .. (q - 1) : MultiplyTable[q][a][b] = 1]]

\* reciprocal(0) fails with ZeroDivisionError: callers test for 0 first
RECIPROCAL(q, a) == ReciprocalTable[q][a]

DIVIDE(q, a, b) == MULTIPLY(q, a, RECIPROCAL(q, b))

RECURSIVE POWER(_, _, _)
POWER(q, a, e) == IF e = 0 THEN 1 ELSE MULTIPLY(q, a, POWER(q, a, e - 1))

\* multiplicative order of a non-zero element
RECURSIVE OrderFrom(_, _, _, _)
OrderFrom(q, a, x, i) == IF x = 1 THEN i ELSE OrderFrom(q, a, MULTIPLY(q, x, a), i + 1)

ElementOrder(q, a) == OrderFrom(q, a, a, 1)

\* the field's primitive element: the smallest generator of the multiplicative group
PrimitiveTable ==
    [q \in Orders |->
        CHOOSE a \in 1 .. (q - 1) :
            /\ ElementOrder(q, a) = q - 1
            /\ \A b \in 1 .. (a - 1) : ElementOrder(q, b) # q - 1]

primitive_element(q) == PrimitiveTable[q]

\* ------------------------------------------------------------------ arrays
\* An ndarray: the field it is viewed in (0 for a plain integer array), its
\* shape and its elements in row-major order.
Array(f, shape, data) == [field |-> f, shape |-> shape, data |-> data]

Vector(f, d) == Array(f, <<Len(d)>>, d)

\* an (M, N) array with element F(i, j) at row i, column j (0-based)
Matrix(f, M, N, F(_, _)) ==
    Array(f, <<M, N>>, [idx \in 1 .. (M * N) |-> F((idx - 1) \div N, (idx - 1) % N)])

Ndim(A) == Len(A.shape)

Size(A) == Len(A.data)

At(A, i, j) == A.data[i * A.shape[2] + j + 1]

RowOf(A, i) == [j \in 1 .. A.shape[2] |-> At(A, i, j - 1)]

Rows(A) == [i \in 1 .. A.shape[1] |-> RowOf(A, i - 1)]

\* a 2-D array from a non-empty sequence of equally long rows
FromRows(f, rows) ==
    Matrix(f, Len(rows), Len(rows[1]), LAMBDA i, j : rows[i + 1][j + 1])

Transpose(A) == Matrix(A.field, A.shape[2], A.shape[1], LAMBDA i, j : At(A, j, i))

\* A[:, lo:hi] with numpy's clipping of the slice bounds
Columns(A, lo, hi) ==
    LET l == Min(lo, A.shape[2])
        h == IF Min(hi, A.shape[2]) < l THEN l ELSE Min(hi, A.shape[2])
    IN  Matrix(A.field, A.shape[1], h - l, LAMBDA i, j : At(A, i, l + j))

atleast_2d(A) == IF Ndim(A) = 1 THEN Array(A.field, <<1, Size(A)>>, A.data) ELSE A

Reverse(s) == [i \in 1 .. Len(s) |-> s[Len(s) + 1 - i]]

\* s[lo:hi] (0-based, hi exclusive, already clipped)
Slice(s, lo, hi) == [i \in 1 .. (hi - lo) |-> s[lo + i]]

Raised(kind, where) == [raised |-> kind, where |-> where]

IsRaised(v) == "raised" \in DOMAIN v

\* a sequence returned by a function that may also raise
Returned(v) == [value |-> v]

\* -------------------------------------------------- kernels (meta_mixin_jit)
\* variant: the loop over k stops one term early, range(K - 1)
RECURSIVE matmul_acc_short(_, _, _, _, _, _)
matmul_acc_short(q, A, B, i, j, K) ==
    IF K <= 1 THEN 0
    ELSE ADD(q, matmul_acc_short(q, A, B, i, j, K - 1),
             MULTIPLY(q, At(A, i, K - 2), At(B, K - 2, j)))

\* _matmul_jit: C[i,j] accumulated over k with the field's add and multiply
RECURSIVE matmul_acc(_, _, _, _, _, _)
matmul_acc(q, A, B, i, j, K) ==
    IF K = 0 THEN 0
    ELSE ADD(q, matmul_acc(q, A, B, i, j, K - 1), MULTIPLY(q, At(A, i, K - 1), At(B, K - 1, j)))

matmul_jit(q, A, B) ==
    Matrix(q, A.shape[1], B.shape[2], LAMBDA i, j : matmul_acc(q, A, B, i, j, A.shape[2]))

\* np.sum over a field array: the field's add reduced over the entries in order
RECURSIVE field_sum(_, _, _)
field_sum(q, x, K) == IF K = 0 THEN 0 ELSE ADD(q, field_sum(q, x, K - 1), x[K])

\* _matmul_python: C[i,j] = np.sum(A[i,:] * B[:,j])
matmul_python(q, A, B) ==
    Matrix(q, A.shape[1], B.shape[2], LAMBDA i, j :
        field_sum(q, [k \in 1 .. A.shape[2] |-> MULTIPLY(q, At(A, i, k - 1), At(B, k - 1, j))],
                  A.shape[2]))

\* _lapack_linalg(A, B, np.matmul) for a prime field: the integer matrix
\* product reduced modulo p
RECURSIVE int_dot(_, _, _, _, _)
int_dot(A, B, i, j, K) ==
    IF K = 0 THEN 0 ELSE int_dot(A, B, i, j, K - 1) + At(A, i, K - 1) * At(B, K - 1, j)

int_matmul(q, A, B) ==
    Matrix(q, A.shape[1], B.shape[2], LAMBDA i, j : int_dot(A, B, i, j, A.shape[2]) % q)

\* a 1-D first operand becomes a row, a 1-D second operand a column
AsRow(A) == IF Ndim(A) = 1 THEN Array(A.field, <<1, Size(A)>>, A.data) ELSE A

AsColumn(B) == IF Ndim(B) = 1 THEN Array(B.field, <<Size(B), 1>>, B.data) ELSE B

\* the result's shape: the dimension added to a 1-D operand is removed again
ProductShape(A, B, A2, B2) ==
    (IF Ndim(A) = 1 THEN <<>> ELSE <<A2.shape[1]>>)
        \o (IF Ndim(B) = 1 THEN <<>> ELSE <<B2.shape[2]>>)

lapack_linalg_2d(A, B, A2, B2) ==
    IF A2.shape[2] # B2.shape[1] THEN Raised("ValueError", "np.matmul")
    ELSE Array(A.field, ProductShape(A, B, A2, B2), int_matmul(A.field, A2, B2).data)

lapack_linalg_matmul(A, B) == lapack_linalg_2d(A, B, AsRow(A), AsColumn(B))

\* variant: no test of the inner dimensions, the loop over k running over the
\* shorter of the two
matmul_2d_clipped(A, B, A2, B2) ==
    Array(A.field, ProductShape(A, B, A2, B2),
          Matrix(A.field, A2.shape[1], B2.shape[2], LAMBDA i, j :
              matmul_acc(A.field, A2, B2, i, j, Min(A2.shape[2], B2.shape[1]))).data)

matmul_2d(A, B, A2, B2) ==
    IF A2.shape[2] # B2.shape[1] THEN Raised("ValueError", "matmul")
    ELSE Array(A.field, ProductShape(A, B, A2, B2), matmul_jit(A.field, A2, B2).data)

\* variant: the numbers of dimensions tested before the fields
matmul_dims_first(A, B) ==
    IF ~(Ndim(A) >= 1 /\ Ndim(B) >= 1) THEN Raised("ValueError", "matmul")
    ELSE IF ~(Ndim(A) <= 2 /\ Ndim(B) <= 2) THEN Raised("ValueError", "matmul")
    ELSE IF A.field # B.field THEN Raised("TypeError", "matmul")
    ELSE IF Degree(A.field) = 1 THEN lapack_linalg_matmul(A, B)
    ELSE matmul_2d(A, B, AsRow(A), AsColumn(B))

\* JITMixin._matmul
matmul(A, B) ==
    IF A.field # B.field THEN Raised("TypeError", "matmul")
    ELSE IF ~(Ndim(A) >= 1 /\ Ndim(B) >= 1) THEN Raised("ValueError", "matmul")
    ELSE IF ~(Ndim(A) <= 2 /\ Ndim(B) <= 2) THEN Raised("ValueError", "matmul")
    ELSE IF Degree(A.field) = 1 THEN lapack_linalg_matmul(A, B)
    ELSE matmul_2d(A, B, AsRow(A), AsColumn(B))

\* _convolve_jit: c[i + j] += a[i] * b[j]; entry k of the result is the field
\* sum of a[i] * b[k - i] taken in the loop's order (i ascending)
RECURSIVE convolve_acc(_, _, _, _, _)
convolve_acc(q, a, b, k, i) ==
    IF i < 0 THEN 0
    ELSE IF k - i >= 0 /\ k - i < Len(b)
         THEN ADD(q, convolve_acc(q, a, b, k, i - 1), MULTIPLY(q, a[i + 1], b[k - i + 1]))
         ELSE convolve_acc(q, a, b, k, i - 1)

convolve_jit(q, a, b) ==
    [k \in 1 .. (Len(a) + Len(b) - 1) |-> convolve_acc(q, a, b, k - 1, Len(a) - 1)]

CONVOLVE(q, a, b) == convolve_jit(q, a, b)

\* _convolve_python: the shorter operand outermost, c[i:i + b.size] += a[i] * b
convolve_python(q, a, b) ==
    LET short == IF Len(b) < Len(a) THEN b ELSE a
        long == IF Len(b) < Len(a) THEN a ELSE b
        RECURSIVE loop(_, _)
        loop(c, i) ==
            IF i >= Len(short) THEN c
            ELSE loop([k \in 1 .. Len(c) |->
                          IF k - 1 >= i /\ k - 1 < i + Len(long)
                          THEN ADD(q, c[k], MULTIPLY(q, short[i + 1], long[k - i]))
                          ELSE c[k]], i + 1)
    IN  loop([k \in 1 .. (Len(a) + Len(b) - 1) |-> 0], 0)

\* variant: the operands left in the dtype of the field, uint8
convolve_modulus_kept(max_value) == 256

\* the first dtype of DTYPES whose maximum is at least max_value, as the
\* modulus of its wrap-around (uint8, uint16; 0 for the wider ones, which no
\* sum of the model reaches)
convolve_modulus(max_value) ==
    IF max_value <= 255 THEN 256 ELSE IF max_value <= 65535 THEN 65536 ELSE 0

\* np.convolve(a, b) on integer arrays of a dtype wrapping at modulus
int_convolve(a, b, modulus) ==
    LET wrap(v) == IF modulus = 0 THEN v ELSE v % modulus
        RECURSIVE acc(_, _)
        acc(k, i) ==
            IF i < 0 THEN 0
            ELSE IF k - i >= 0 /\ k - i < Len(b)
                 THEN wrap(acc(k, i - 1) + wrap(a[i + 1] * b[k - i + 1]))
                 ELSE acc(k, i - 1)
    IN  [k \in 1 .. (Len(a) + Len(b) - 1) |-> acc(k - 1, Len(a) - 1)]

\* JITMixin._convolve over a prime field: integer convolution in a dtype that
\* holds n_sum * (p - 1)^2, reduced modulo p
convolve_prime(q, a, b) ==
    LET c == int_convolve(a, b, convolve_modulus(Min(Len(a), Len(b)) * (q - 1) * (q - 1)))
    IN  [k \in 1 .. Len(c) |-> c[k] % q]

\* JITMixin._convolve
convolve(a, b, ufunc_mode) ==
    IF a.field # b.field THEN Raised("AssertionError", "convolve")
    ELSE IF Degree(a.field) = 1 THEN Vector(a.field, convolve_prime(a.field, a.data, b.data))
    ELSE IF ufunc_mode = "python-calculate"
         THEN Vector(a.field, convolve_python(a.field, a.data, b.data))
         ELSE Vector(a.field, convolve_jit(a.field, a.data, b.data))

\* _poly_divmod_jit: the long-division loop on the 1-D arrays a and b
\* variant: the inner loop alone, qr[i] left as it was
poly_divmod_sub_kept(q, qr, b, i, quo) ==
    [idx \in 1 .. Len(qr) |->
        IF idx - 1 >= i /\ idx - 1 < i + Len(b)
        THEN SUBTRACT(q, qr[idx], MULTIPLY(q, quo, b[idx - i]))
        ELSE qr[idx]]

\* the inner loop qr[i + j] -= quo * b[j], then qr[i] = quo
poly_divmod_sub(q, qr, b, i, quo) ==
    [idx \in 1 .. Len(qr) |->
        IF idx - 1 = i THEN quo
        ELSE IF idx - 1 > i /\ idx - 1 < i + Len(b)
             THEN SUBTRACT(q, qr[idx], MULTIPLY(q, quo, b[idx - i]))
             ELSE qr[idx]]

RECURSIVE poly_divmod_loop(_, _, _, _, _)
poly_divmod_loop(q, qr, b, i, q_degree) ==
    IF i > q_degree THEN Returned(qr)
    ELSE IF qr[i + 1] > 0
         THEN IF b[1] = 0 THEN Raised("ZeroDivisionError", "poly_divmod")
              ELSE poly_divmod_loop(q, poly_divmod_sub(q, qr, b, i, DIVIDE(q, qr[i + 1], b[1])),
                                    b, i + 1, q_degree)
         ELSE poly_divmod_loop(q, qr, b, i + 1, q_degree)

\* assert a.size >= b.size, then the loop on a copy of a
poly_divmod_jit(q, a, b) ==
    IF Len(a) < Len(b) THEN Raised("AssertionError", "poly_divmod")
    ELSE poly_divmod_loop(q, a, b, 0, Len(a) - Len(b))

\* _poly_divmod_python: qr[i:i + b.size] -= q*b on the slice, then qr[i] = q
poly_divmod_python_sub(q, qr, b, i, quo) ==
    LET updated == [j \in 1 .. Len(b) |-> SUBTRACT(q, qr[i + j], MULTIPLY(q, quo, b[j]))]
    IN  Slice(qr, 0, i) \o <<quo>> \o Tail(updated) \o Slice(qr, i + Len(b), Len(qr))

RECURSIVE poly_divmod_python_loop(_, _, _, _, _)
poly_divmod_python_loop(q, qr, b, i, q_degree) ==
    IF i > q_degree THEN Returned(qr)
    ELSE IF qr[i + 1] > 0
         THEN IF b[1] = 0 THEN Raised("ZeroDivisionError", "poly_divmod")
              ELSE poly_divmod_python_loop(q,
                       poly_divmod_python_sub(q, qr, b, i, DIVIDE(q, qr[i + 1], b[1])),
                       b, i + 1, q_degree)
         ELSE poly_divmod_python_loop(q, qr, b, i + 1, q_degree)

poly_divmod_python(q, a, b) ==
    IF Len(a) < Len(b) THEN Raised("AssertionError", "poly_divmod")
    ELSE poly_divmod_python_loop(q, a, b, 0, Len(a) - Len(b))

\* _poly_evaluate_jit for one value: Horner's rule
RECURSIVE poly_evaluate_loop(_, _, _, _)
poly_evaluate_loop(q, coeffs, value, j) ==
    IF j = 1 THEN coeffs[1]
    ELSE ADD(q, coeffs[j], MULTIPLY(q, poly_evaluate_loop(q, coeffs, value, j - 1), value))

POLY_EVAL(q, coeffs, value) == poly_evaluate_loop(q, coeffs, value, Len(coeffs))

\* variant: every result computed from values[0]
poly_evaluate_jit_first(q, coeffs, values) ==
    [i \in 1 .. Len(values) |-> POLY_EVAL(q, coeffs, values[1])]

\* _poly_evaluate_jit: for i in range(values.size), Horner's rule on values[i]
poly_evaluate_jit(q, coeffs, values) ==
    [i \in 1 .. Len(values) |-> POLY_EVAL(q, coeffs, values[i])]

\* _poly_evaluate_python for one value: result = coeffs[0], then
\* result = coeffs[j] + result * values for j = 1 .. coeffs.size - 1
RECURSIVE poly_evaluate_python_from(_, _, _, _, _)
poly_evaluate_python_from(q, coeffs, values, j, result) ==
    IF j >= Len(coeffs) THEN result
    ELSE poly_evaluate_python_from(q, coeffs, values, j + 1,
             ADD(q, coeffs[j + 1], MULTIPLY(q, result, values)))

poly_evaluate_python(q, coeffs, values) ==
    poly_evaluate_python_from(q, coeffs, values, 1, coeffs[1])

\* np.vectorize(cls._poly_evaluate_python, excluded=["coeffs"])
poly_evaluate_vectorized(q, coeffs, values) ==
    [i \in 1 .. Len(values) |-> poly_evaluate_python(q, coeffs, values[i])]

\* np.atleast_1d(x)
atleast_1d(x) == IF Ndim(x) = 0 THEN Array(x.field, <<1>>, x.data) ELSE x

\* y = y[0] when y.size == 1
poly_evaluate_return(y) == IF Size(y) = 1 THEN Array(y.field, Tail(y.shape), y.data) ELSE y

\* JITMixin._poly_evaluate
poly_evaluate(coeffs, x, ufunc_mode) ==
    IF coeffs.field # x.field \/ Ndim(coeffs) # 1 THEN Raised("AssertionError", "poly_evaluate")
    ELSE poly_evaluate_return(Array(x.field, atleast_1d(x).shape,
             IF ufunc_mode = "python-calculate"
             THEN poly_evaluate_vectorized(x.field, coeffs.data, x.data)
             ELSE poly_evaluate_jit(x.field, coeffs.data, x.data)))

\* qr[0:q_degree + 1], qr[q_degree + 1:q_degree + 1 + r_degree + 1]
poly_divmod_split(f, qr, q_degree, r_degree) ==
    IF IsRaised(qr) THEN qr
    ELSE [quotient |-> Vector(f, Slice(qr.value, 0, q_degree + 1)),
          remainder |-> Vector(f, Slice(qr.value, q_degree + 1, q_degree + 1 + r_degree))]

\* JITMixin._poly_divmod: the kernel is compiled for 1-D arrays
\* ("int64[:](int64[:], int64[:])"), so an array of another rank is rejected
poly_divmod(a, b) ==
    IF Ndim(a) # 1 \/ Ndim(b) # 1 THEN Raised("TypeError", "poly_divmod")
    ELSE poly_divmod_split(a.field, poly_divmod_jit(a.field, a.data, b.data),
                           Size(a) - Size(b), Size(b) - 1)

\* JITMixin._poly_divmod of a field in ufunc_mode "python-calculate"
poly_divmod_calculate(a, b) ==
    poly_divmod_split(a.field, poly_divmod_python(a.field, a.data, b.data),
                      Size(a) - Size(b), Size(b) - 1)

\* ------------------------------------------------------------- polynomials
\* a Poly is its coefficients in descending degree without leading zeros, the
\* zero polynomial being <<0>>
Poly(coeffs) ==
    LET RECURSIVE strip(_)
        strip(c) == IF Len(c) > 1 /\ c[1] = 0 THEN strip(Tail(c)) ELSE c
    IN  IF Len(coeffs) = 0 THEN <<0>> ELSE strip(coeffs)

\* a * b
Poly_mul(q, a, b) == Poly(convolve_jit(q, a, b))

\* divmod(a, b) for b # 0: the quotient and the remainder of the long division
Poly_divmod(q, a, b) ==
    IF Len(a) < Len(b) THEN [quotient |-> <<0>>, remainder |-> a]
    ELSE poly_divmod_split(q, poly_divmod_jit(q, a, b), Len(a) - Len(b), Len(b) - 1)

\* a / b, the quotient
Poly_div(q, a, b) == Poly(Poly_divmod(q, a, b).quotient.data)

\* a % b
Poly_mod(q, a, b) ==
    IF Len(a) < Len(b) THEN a ELSE Poly(Poly_divmod(q, a, b).remainder.data)

\* the formal derivative: the degree-d coefficient times d mod p
Poly_derivative(q, a) ==
    Poly([j \in 1 .. (Len(a) - 1) |->
             MULTIPLY(q, (Len(a) - j) % Characteristic(q), a[j])])

\* poly_gcd: Euclid's algorithm, the result made monic (a value bound by
\* `\in {e}` is computed once)
RECURSIVE poly_gcd(_, _, _)
poly_gcd(q, a, b) ==
    IF b = <<0>>
    THEN (IF a = <<0>> THEN a ELSE [j \in 1 .. Len(a) |-> DIVIDE(q, a[j], a[1])])
    ELSE CHOOSE g \in {poly_gcd(q, b, rem) : rem \in {Poly_mod(q, a, b)}} : TRUE

\* Poly.Degrees([degree // p for degree in d.degrees], coeffs=d.coeffs): the
\* coefficient of x^(k*p) of d becomes that of x^k
Poly_Degrees(q, d) ==
    [j \in 1 .. ((Len(d) - 1) \div Characteristic(q) + 1) |->
        d[Len(d) - ((Len(d) - 1) \div Characteristic(q) + 1 - j) * Characteristic(q)]]

\* ---------------------------------------------------------- poly_factors
\* the body of the loop `while w != one` of SFF, y = poly_gcd(w, d), z = w / y
SFF_append(q, z, i, r, found) ==
    IF z # <<1>> /\ i % Characteristic(q) # 0
    THEN Append(found, [factor |-> z, multiplicity |-> i * Characteristic(q) ^ r])
    ELSE found

RECURSIVE SFF_loop(_, _, _, _, _, _)
SFF_step(q, d, i, r, found, w, y) ==
    SFF_loop(q, y, Poly_div(q, d, y), i + 1, r, SFF_append(q, Poly_div(q, w, y), i, r, found))

SFF_loop(q, w, d, i, r, found) ==
    IF w = <<1>> THEN [d |-> d, found |-> found]
    ELSE SFF_step(q, d, i, r, found, w, poly_gcd(q, w, d))

\* SFF(c, r): d = poly_gcd(c, c'), w = c / d, then the loop; returns d
SFF_from(q, c, r, found, d) == SFF_loop(q, Poly_div(q, c, d), d, 1, r, found)

SFF(q, c, r, found) == SFF_from(q, c, r, found, poly_gcd(q, c, Poly_derivative(q, c)))

\* while d != one: d = SFF(p-th root of d, r + 1)
RECURSIVE poly_factors_loop(_, _, _)
poly_factors_loop(q, r, state) ==
    IF state.d = <<1>> THEN state.found
    ELSE poly_factors_loop(q, r + 1, SFF(q, Poly_Degrees(q, state.d), r + 1, state.found))

\* sorted(zip(factors_, multiplicities), key=lambda item: item[0].integer)
poly_factors_sorted(q, found) ==
    LET RECURSIVE integer(_)
        integer(c) == IF Len(c) = 0 THEN 0 ELSE integer(SubSeq(c, 1, Len(c) - 1)) * q + c[Len(c)]
        RECURSIVE insert(_, _)
        insert(sorted, item) ==
            IF Len(sorted) = 0 THEN <<item>>
            ELSE IF integer(sorted[Len(sorted)].factor) <= integer(item.factor)
                 THEN Append(sorted, item)
                 ELSE Append(insert(SubSeq(sorted, 1, Len(sorted) - 1), item), sorted[Len(sorted)])
        RECURSIVE sort(_, _)
        sort(sorted, n) == IF n > Len(found) THEN sorted ELSE sort(insert(sorted, found[n]), n + 1)
    IN  sort(<<>>, 1)

\* poly_factors: the leading coefficient as a factor when poly is not monic,
\* then the square-free factorization loop
poly_factors(q, poly) ==
    LET sorted == poly_factors_sorted(q, poly_factors_loop(q, 0,
                      SFF(q, [j \in 1 .. Len(poly) |-> DIVIDE(q, poly[j], poly[1])], 0,
                          IF poly[1] # 1 THEN <<[factor |-> <<poly[1]>>, multiplicity |-> 1]>>
                          ELSE <<>>)))
    IN  [factors |-> [n \in 1 .. Len(sorted) |-> sorted[n].factor],
         multiplicities |-> [n \in 1 .. Len(sorted) |-> sorted[n].multiplicity]]

\* ------------------------------------------- equal_degree_factorization
\* poly_pow(h, e, poly): h^e modulo poly
RECURSIVE poly_pow(_, _, _, _)
poly_pow(q, h, e, poly) ==
    IF e = 0 THEN Poly_mod(q, <<1>>, poly)
    ELSE CHOOSE pw \in {Poly_mod(q, Poly_mul(q, prev, h), poly) :
                        prev \in {poly_pow(q, h, e - 1, poly)}} : TRUE

\* variant: gcd and u / gcd appended, u left in the list
edf_visit_kept(q, g, factors_, idx, gcd) ==
    IF gcd # <<1>> /\ gcd # factors_[idx]
    THEN factors_ \o <<gcd, Poly_div(q, factors_[idx], gcd)>>
    ELSE factors_

\* the body of `for u in factors_` for the element u at index idx (1-based),
\* gcd = poly_gcd(g, u): factors_.remove(u) drops the first element equal to
\* u, then gcd and u / gcd are appended
edf_visit(q, g, factors_, idx, gcd) ==
    IF gcd # <<1>> /\ gcd # factors_[idx]
    THEN LET first == CHOOSE n \in 1 .. Len(factors_) :
                          /\ factors_[n] = factors_[idx]
                          /\ \A m \in 1 .. (n - 1) : factors_[m] # factors_[idx]
         IN  SubSeq(factors_, 1, first - 1) \o SubSeq(factors_, first + 1, Len(factors_))
                 \o <<gcd, Poly_div(q, factors_[idx], gcd)>>
    ELSE factors_

\* for u in factors_: the list iterator advances by index over the list as
\* the body changes it, until the index passes its end
RECURSIVE edf_for(_, _, _, _)
edf_for(q, g, factors_, idx) ==
    IF idx > Len(factors_) THEN factors_
    ELSE CHOOSE result \in
             {edf_for(q, g, next, idx + 1) :
                  next \in {edf_visit(q, g, factors_, idx, gcd) :
                               gcd \in {poly_gcd(q, g, factors_[idx])}}} : TRUE

\* one iteration of `while len(factors_) < r` for the random h, g = poly_gcd(poly, h)
edf_iteration(q, poly, d, h, factors_, g) ==
    IF g = <<1>>
    THEN CHOOSE result \in
             {edf_for(q, Poly([j \in 1 .. Len(pw) |->
                                  IF j = Len(pw) THEN SUBTRACT(q, pw[j], 1) ELSE pw[j]]),
                      factors_, 1) :
                  pw \in {poly_pow(q, h, (q ^ d - 1) \div 2, poly)}} : TRUE
    ELSE edf_for(q, g, factors_, 1)

\* ------------------------------------------- field functions used by the codec
\* berlekamp_massey: the shortest linear recurrence of the sequence s, as the
\* feedback polynomial 1 + c1 x + ... + cL x^L in descending degree
RECURSIVE bm_discrepancy(_, _, _, _, _)
bm_discrepancy(q, s, c, n, i) ==
    IF i < 0 THEN 0
    ELSE ADD(q, bm_discrepancy(q, s, c, n, i - 1), MULTIPLY(q, s[n - i + 1], c[i + 1]))

\* c(x) - (d / bb) x^m b(x)
bm_update(q, c, b, m, d_bb) ==
    [i \in 1 .. Len(c) |->
        IF i - 1 >= m THEN SUBTRACT(q, c[i], MULTIPLY(q, d_bb, b[i - m])) ELSE c[i]]

RECURSIVE bm_loop(_, _, _, _, _, _, _, _)
RECURSIVE bm_step(_, _, _, _, _, _, _, _, _)
bm_step(q, s, n, c, b, L, m, bb, d) ==
    IF d = 0 THEN bm_loop(q, s, n + 1, c, b, L, m + 1, bb)
    ELSE IF 2 * L <= n
         THEN bm_loop(q, s, n + 1, bm_update(q, c, b, m, DIVIDE(q, d, bb)), c, n + 1 - L, 1, d)
         ELSE bm_loop(q, s, n + 1, bm_update(q, c, b, m, DIVIDE(q, d, bb)), b, L, m + 1, bb)

bm_loop(q, s, n, c, b, L, m, bb) ==
    IF n = Len(s) THEN Reverse(Slice(c, 0, Min(L + 1, Len(s))))
    ELSE bm_step(q, s, n, c, b, L, m, bb, bm_discrepancy(q, s, c, n, L))

UnitCoeffs(N) == [i \in 1 .. N |-> IF i = 1 THEN 1 ELSE 0]

BERLEKAMP_MASSEY(q, s) == bm_loop(q, s, 0, UnitCoeffs(Len(s)), UnitCoeffs(Len(s)), 0, 1, 1)

\* poly_roots: the non-zero roots of the polynomial, searched as powers
\* alpha^0, alpha^1, ... of the primitive element; each root comes with its power
RECURSIVE poly_roots_from(_, _, _, _)
poly_roots_from(q, coeffs, primitive, i) ==
    IF i > q - 2 THEN <<>>
    ELSE IF POLY_EVAL(q, coeffs, POWER(q, primitive, i)) = 0
         THEN <<<<POWER(q, primitive, i), i>>>> \o poly_roots_from(q, coeffs, primitive, i + 1)
         ELSE poly_roots_from(q, coeffs, primitive, i + 1)

POLY_ROOTS(q, coeffs, primitive) == poly_roots_from(q, coeffs, primitive, 0)

\* Poly.Roots: the product of (x - r) over the roots, by repeated multiplication
RECURSIVE PolyRoots(_, _, _)
PolyRoots(q, roots, i) ==
    IF i = 0 THEN <<1>>
    ELSE convolve_jit(q, PolyRoots(q, roots, i - 1), <<1, SUBTRACT(q, 0, roots[i])>>)

\* x^d as a coefficient sequence
Monomial(d) == [i \in 1 .. (d + 1) |-> IF i = 1 THEN 1 ELSE 0]

\* the n - k coefficients of x^(n-1-i) mod g
ParityRow(q, n, k, g, i) == Slice(poly_divmod_jit(q, Monomial(n - 1 - i), g).value, k - i, n - i)

\* generator_poly_to_matrix: k = n - deg g rows; systematic G = [I | P] with row i
\* of P the negated remainder of x^(n-1-i) by g, else row i is g shifted by i
generator_matrix(q, n, k, g, systematic) ==
    IF systematic
    THEN Matrix(q, k, n, LAMBDA i, j :
             IF j < k THEN (IF i = j THEN 1 ELSE 0)
             ELSE SUBTRACT(q, 0, ParityRow(q, n, k, g, i)[j - k + 1]))
    ELSE Matrix(q, k, n, LAMBDA i, j :
             IF j >= i /\ j <= i + (n - k) THEN g[j - i + 1] ELSE 0)

generator_poly_to_matrix(q, n, g, systematic) ==
    generator_matrix(q, n, n - (Len(g) - 1), g, systematic)

\* roots_to_parity_check_matrix: H[i][j] = roots[i]^(n-1-j)
roots_to_parity_check_matrix(q, n, roots) ==
    Matrix(q, Len(roots), n, LAMBDA i, j : POWER(q, roots[i + 1], n - 1 - j))

\* ------------------------------------------------------ Reed-Solomon functions
\* variant: the test on c left out
check_and_compute_field_any_c(n, k, c) ==
    IF ~(PyMod(n - k, 2) = 0) THEN Raised("ValueError", "n - k")
    ELSE IF ~IsPrimePower(n + 1) THEN Raised("ValueError", "n")
    ELSE [order |-> n + 1]

\* _check_and_compute_field: the field order q = n + 1, or the error raised
check_and_compute_field(n, k, c) ==
    IF ~(PyMod(n - k, 2) = 0) THEN Raised("ValueError", "n - k")
    ELSE IF ~IsPrimePower(n + 1) THEN Raised("ValueError", "n")
    ELSE IF ~(c >= 1) THEN Raised("ValueError", "c")
    ELSE [order |-> n + 1]

\* variant: the exponents taken from np.arange(1, 2*t + 1)
generator_roots_from_next(q, t, c) ==
    [i \in 1 .. (2 * t) |-> POWER(q, primitive_element(q), c + i)]

\* roots_ = alpha**(c + np.arange(0, 2*t))
generator_roots(q, t, c) ==
    [i \in 1 .. (2 * t) |-> POWER(q, primitive_element(q), c + (i - 1))]

\* variant: g = Poly.Roots(roots_[1:]), the first root left out of the product
generator_poly_of_short(q, roots_) ==
    [g |-> PolyRoots(q, Slice(roots_, 1, IF Len(roots_) = 0 THEN 1 ELSE Len(roots_)),
                     IF Len(roots_) = 0 THEN 0 ELSE Len(roots_) - 1),
     roots |-> roots_]

\* g = Poly.Roots(roots_); return g, roots_
generator_poly_of(q, roots_) == [g |-> PolyRoots(q, roots_, Len(roots_)), roots |-> roots_]

rs_generator_poly_in(GF, n, k, c) ==
    IF IsRaised(GF) THEN GF
    ELSE generator_poly_of(GF.order, generator_roots(GF.order, FloorDiv(n - k, 2), c))

\* rs_generator_poly(n, k, c, roots=True)
rs_generator_poly(n, k, c) == rs_generator_poly_in(check_and_compute_field(n, k, c), n, k, c)

\* --------------------------------------------------------- Reed-Solomon class
\* an attribute is set on the object when it is in the record's domain
NoObject == [constructed |-> FALSE]

Has(obj, attr) == attr \in DOMAIN obj

\* ReedSolomon.__new__ after rs_generator_poly: the object as the constructor
\* leaves it; `constructed` tells whether it was returned
ReedSolomon_new(n, k, c, systematic, gr) ==
    IF IsRaised(gr)
    THEN [obj |-> [constructed |-> FALSE, n |-> n, k |-> k, c |-> c,
                   systematic |-> systematic],
          raised |-> gr.raised]
    ELSE [obj |-> [constructed |-> TRUE, n |-> n, k |-> k, c |-> c,
                   systematic |-> systematic,
                   generator_poly |-> gr.g,
                   roots |-> gr.roots,
                   field |-> n + 1,
                   t |-> Len(gr.roots) \div 2,
                   G |-> generator_poly_to_matrix(n + 1, n, gr.g, systematic),
                   H |-> roots_to_parity_check_matrix(n + 1, n, gr.roots),
                   is_narrow_sense |-> (c = 1)],
          raised |-> ""]

ReedSolomon(n, k, c, systematic) ==
    ReedSolomon_new(n, k, c, systematic, rs_generator_poly(n, k, c))

\* np.hstack((message, parity)): 1-D arrays are joined end to end, 2-D arrays
\* row by row
hstack_2d(a, b) ==
    FromRows(a.field, [i \in 1 .. a.shape[1] |-> RowOf(a, i - 1) \o RowOf(b, i - 1)])

hstack(a, b) ==
    IF IsRaised(b) THEN b
    ELSE IF Ndim(a) = 1 THEN Vector(a.field, a.data \o b.data)
    ELSE hstack_2d(a, b)

\* variant: the shape of the message tested before parity_only
encode_shape_first(self, message, parity_only) ==
    IF ~(message.shape[Ndim(message)] = self.k) THEN Raised("ValueError", "message")
    ELSE IF parity_only /\ ~self.systematic THEN Raised("ValueError", "parity_only")
    ELSE IF parity_only THEN matmul(message, Columns(self.G, self.k, self.n))
    ELSE IF self.systematic
         THEN hstack(message, matmul(message, Columns(self.G, self.k, self.n)))
    ELSE matmul(message, self.G)

\* variant: np.hstack((parity, message))
encode_parity_first(self, message, parity_only) ==
    IF parity_only /\ ~self.systematic THEN Raised("ValueError", "parity_only")
    ELSE IF ~(message.shape[Ndim(message)] = self.k) THEN Raised("ValueError", "message")
    ELSE IF parity_only THEN matmul(message, Columns(self.G, self.k, self.n))
    ELSE IF self.systematic
         THEN (IF IsRaised(matmul(message, Columns(self.G, self.k, self.n)))
               THEN matmul(message, Columns(self.G, self.k, self.n))
               ELSE hstack(matmul(message, Columns(self.G, self.k, self.n)), message))
    ELSE matmul(message, self.G)

\* ReedSolomon.encode
encode(self, message, parity_only) ==
    IF parity_only /\ ~self.systematic THEN Raised("ValueError", "parity_only")
    ELSE IF ~(message.shape[Ndim(message)] = self.k) THEN Raised("ValueError", "message")
    ELSE IF parity_only THEN matmul(message, Columns(self.G, self.k, self.n))
    ELSE IF self.systematic
         THEN hstack(message, matmul(message, Columns(self.G, self.k, self.n)))
    ELSE matmul(message, self.G)

\* --------------------------------------------------------- decode_calculate
\* a[-v:] as numpy takes it
LastOf(a, v) == IF v = 0 \/ v >= Len(a) THEN a ELSE Slice(a, Len(a) - v, Len(a))

\* a[0:v]
FirstOf(a, v) == Slice(a, 0, Min(v, Len(a)))

SetAt(a, idx, val) == [a EXCEPT ![idx] = val]

\* variant: the degree reduced modulo the order of the field
sigma_derivative_order(q, sigma, v) ==
    [j \in 1 .. v |-> MULTIPLY(q, (v - (j - 1)) % q, sigma[j])]

\* sigma_prime[j] = MULTIPLY(degree % CHARACTERISTIC, sigma[j]) with degree = v - j
sigma_derivative(q, sigma, v) ==
    [j \in 1 .. v |-> MULTIPLY(q, (v - (j - 1)) % Characteristic(q), sigma[j])]

\* Z0 = CONVOLVE(sigma[-v:], syndrome[i,0:v][::-1])[-v:]
error_evaluator(q, sigma, syndrome, v) ==
    LastOf(CONVOLVE(q, LastOf(sigma, v), Reverse(FirstOf(syndrome, v))), v)

\* delta_i = MULTIPLY(SUBTRACT(0, Z0_i), RECIPROCAL(sigma_prime_i))
error_value(q, Z0_i, sigma_prime_i) ==
    MULTIPLY(q, SUBTRACT(q, 0, Z0_i), RECIPROCAL(q, sigma_prime_i))

\* the position n - 1 - error_location in a row of n + 1 entries, a negative
\* index counting from the end
RowIndex(n, pos) == IF pos < 0 THEN pos + n + 1 ELSE pos

\* the Forney loop over the v roots: the row with the error values subtracted,
\* or the exception raised by a reciprocal of 0 or by an index outside the row
RECURSIVE forney_loop(_, _, _, _, _, _, _, _, _)
RECURSIVE forney_apply(_, _, _, _, _, _, _, _, _, _, _, _)
forney_apply(q, row, n, beta, error_locations, Z0, sigma_prime, j, v, Z0_i, sigma_prime_i, idx) ==
    IF sigma_prime_i = 0 THEN Raised("ZeroDivisionError", "sigma_prime")
    ELSE IF idx < 0 \/ idx > n THEN Raised("IndexError", "error_locations")
    ELSE forney_loop(q,
             SetAt(row, idx + 1, SUBTRACT(q, row[idx + 1], error_value(q, Z0_i, sigma_prime_i))),
             n, beta, error_locations, Z0, sigma_prime, j + 1, v)

\* variant: the index taken from the discrete log of beta_inv
forney_at_inverse(q, row, n, beta, error_locations, Z0, sigma_prime, j, v, beta_inv) ==
    forney_apply(q, row, n, beta, error_locations, Z0, sigma_prime, j, v,
                 POLY_EVAL(q, Z0, beta_inv), POLY_EVAL(q, sigma_prime, beta_inv),
                 RowIndex(n, n - 1 - (CHOOSE e \in 0 .. (q - 2) :
                                          POWER(q, primitive_element(q), e) = beta_inv)))

forney_at(q, row, n, beta, error_locations, Z0, sigma_prime, j, v, beta_inv) ==
    forney_apply(q, row, n, beta, error_locations, Z0, sigma_prime, j, v,
                 POLY_EVAL(q, Z0, beta_inv), POLY_EVAL(q, sigma_prime, beta_inv),
                 RowIndex(n, n - 1 - error_locations[j + 1]))

forney_loop(q, row, n, beta, error_locations, Z0, sigma_prime, j, v) ==
    IF j = v THEN Returned(row)
    ELSE IF beta[j + 1] = 0 THEN Raised("ZeroDivisionError", "beta")
    ELSE forney_at(q, row, n, beta, error_locations, Z0, sigma_prime, j, v,
                   RECIPROCAL(q, beta[j + 1]))

\* variant: the count taken as sigma.size, without the - 1
decode_count_size(n, v, fixed) ==
    IF IsRaised(fixed) THEN fixed ELSE Returned(SetAt(fixed.value, n + 1, v + 1))

\* dec_codeword[i, -1] = v once the loop has run
decode_count(n, v, fixed) ==
    IF IsRaised(fixed) THEN fixed ELSE Returned(SetAt(fixed.value, n + 1, v))

\* variant: the number of roots is compared with v after the Forney loop has
\* run over the roots found
decode_correct_late(q, row, syndrome, n, sigma, v, results) ==
    decode_count(n, IF Len(results) # v THEN -1 ELSE v,
        forney_loop(q, row, n,
                    [j \in 1 .. Len(results) |-> results[j][1]],
                    [j \in 1 .. Len(results) |-> results[j][2]],
                    error_evaluator(q, sigma, syndrome, v),
                    sigma_derivative(q, sigma, v), 0, Len(results)))

\* from POLY_ROOTS on: the second `continue`, sigma', Z0 and the Forney loop
decode_correct(q, row, syndrome, n, sigma, v, results) ==
    IF Len(results) # v THEN Returned(SetAt(row, n + 1, -1))
    ELSE decode_count(n, v,
             forney_loop(q, row, n,
                         [j \in 1 .. Len(results) |-> results[j][1]],
                         [j \in 1 .. Len(results) |-> results[j][2]],
                         error_evaluator(q, sigma, syndrome, v),
                         sigma_derivative(q, sigma, v), 0, v))

\* after the two BERLEKAMP_MASSEY calls: v = sigma.size - 1 and the first `continue`
decode_locate(q, row, syndrome, t, primitive, n, sigma, sigma_rev) ==
    IF Len(sigma) - 1 > t THEN Returned(SetAt(row, n + 1, -1))
    ELSE decode_correct(q, row, syndrome, n, sigma, Len(sigma) - 1,
                        POLY_ROOTS(q, sigma_rev, primitive))

\* one iteration of `for i in range(N)`: row i of dec_codeword after it
decode_row(q, row, syndrome, t, primitive, n) ==
    IF \A j \in 1 .. Len(syndrome) : syndrome[j] = 0 THEN Returned(row)
    ELSE decode_locate(q, row, syndrome, t, primitive, n,
                       BERLEKAMP_MASSEY(q, syndrome),
                       BERLEKAMP_MASSEY(q, Reverse(syndrome)))

\* the loop over the rows of dec_codeword, an exception ending the call
RECURSIVE decode_rows(_, _, _, _, _, _, _)
RECURSIVE decode_next(_, _, _, _, _, _, _, _)
decode_next(q, dec_codeword, syndrome, t, primitive, n, i, row) ==
    IF IsRaised(row) THEN row
    ELSE decode_rows(q, SetAt(dec_codeword, i + 1, row.value), syndrome, t, primitive, n, i + 1)

decode_rows(q, dec_codeword, syndrome, t, primitive, n, i) ==
    IF i = Len(dec_codeword) THEN Returned(dec_codeword)
    ELSE decode_next(q, dec_codeword, syndrome, t, primitive, n, i,
                     decode_row(q, dec_codeword[i + 1], syndrome[i + 1], t, primitive, n))

\* decode_calculate(codeword, syndrome, t, primitive_element, ...): the rows of
\* the (N, n + 1) result, the last column being the number of corrected errors
decode_calculate(q, codeword, syndrome, t, primitive) ==
    decode_rows(q, [i \in 1 .. codeword.shape[1] |-> RowOf(codeword, i - 1) \o <<0>>],
                Rows(syndrome), t, primitive, codeword.shape[2], 0)

\* ------------------------------------------------------- ReedSolomon.decode
\* message[0,:], N_errors[0] for a 1-D codeword
decode_return(codeword_1d, message, N_errors) ==
    IF IsRaised(message) THEN message
    ELSE [message |-> IF codeword_1d THEN RowOf(message, 0) ELSE Rows(message),
          N_errors |-> IF codeword_1d THEN N_errors[1] ELSE N_errors]

\* the quotient of the (N, n) array dec_codeword[:, 0:n] by generator_poly
decode_quotient(qr) == IF IsRaised(qr) THEN qr ELSE qr.quotient

decode_message(self, codeword_1d, dec) ==
    decode_return(codeword_1d,
        IF self.systematic THEN Columns(dec, 0, self.k)
        ELSE decode_quotient(poly_divmod(Columns(dec, 0, self.n),
                                         Vector(self.field, self.generator_poly))),
        [i \in 1 .. dec.shape[1] |-> At(dec, i - 1, dec.shape[2] - 1)])

decode_jit(self, codeword_1d, result) ==
    IF IsRaised(result) THEN result
    ELSE decode_message(self, codeword_1d, FromRows(self.field, result.value))

decode_syndrome(self, codeword_1d, cw, syndrome) ==
    IF IsRaised(syndrome) THEN syndrome
    ELSE decode_jit(self, codeword_1d,
             decode_calculate(self.field, cw, syndrome, self.t, primitive_element(self.field)))

\* variant: only the first n symbols of each word are looked at
decode_2d_sliced(self, codeword_1d, cw) ==
    decode_syndrome(self, codeword_1d, Columns(cw, 0, self.n),
                    matmul(Columns(cw, 0, self.n), Transpose(self.H)))

decode_2d(self, codeword_1d, cw) ==
    decode_syndrome(self, codeword_1d, cw, matmul(cw, Transpose(self.H)))

\* ReedSolomon.decode(codeword, errors=True): [message, N_errors] or the exception
decode(self, codeword) == decode_2d(self, Ndim(codeword) = 1, atleast_2d(codeword))

\* ------------------------------------------------------------- input families
\* message number s of a codec: m[i] = s * i reduced into the field
MessageOf(q, k, s) == [i \in 1 .. k |-> (s * i) % q]

\* error patterns of length n over GF(q) with at most w non-zero symbols
RECURSIVE PatternsOf(_, _, _)
PatternsOf(q, n, w) ==
    IF n = 0 THEN {<<>>}
    ELSE {Append(e, 0) : e \in PatternsOf(q, n - 1, w)}
         \cup (IF w = 0 THEN {}
               ELSE {Append(e[1], e[2]) : e \in PatternsOf(q, n - 1, w - 1) \X (1 .. (q - 1))})

\* the patterns tried on the codeword encode returned (none before encode)
PatternsFor(o, obj) ==
    IF o = "encode" /\ obj.constructed THEN PatternsOf(obj.field, obj.n, MaxWeight) ELSE {}

Weight(e) == Cardinality({i \in 1 .. Len(e) : e[i] # 0})

\* the pattern e without its last d non-zero symbols
RECURSIVE DropLast(_, _)
DropLast(e, d) ==
    IF d = 0 \/ Weight(e) = 0 THEN e
    ELSE DropLast(SetAt(e, CHOOSE i \in 1 .. Len(e) :
                               e[i] # 0 /\ \A j \in (i + 1) .. Len(e) : e[j] = 0, 0),
                  d - 1)

\* the received word: codeword + e, symbol by symbol in the field
AddPattern(q, cw, e) == [i \in 1 .. Len(cw) |-> ADD(q, cw[i], e[i])]

\* ------------------------------------------- JITMixin._compile_special_functions
\* The module-level names ADD_JIT, SUBTRACT_JIT, MULTIPLY_JIT and DIVIDE_JIT are
\* always assigned together: `globals` is the field whose operators they are
\* bound to, 0 for the placeholder lambdas. A compiled function is a record of
\* how it was made and of the globals as they were when numba compiled it.
JITFields == {3, 4, 5}
JITKernels == {"matmul", "convolve", "poly_divmod", "poly_evaluate"}

\* numba.jit(signature, nopython=True)(f) and numba.guvectorize([signature], ...)(f):
\* a signature is given, so f is compiled in this call, with the module globals
\* it names taken as constants
numba_jit(globals) == [compiled |-> "numba", globals |-> globals]

\* np.vectorize(cls._poly_evaluate_python, ...): a method of the class, no global
np_vectorize(cls) == [compiled |-> "vectorize", globals |-> cls]

\* variant: the kernel looks the names up in the module when it is called
kernel_globals_late(func, globals) == globals

\* the operators a compiled kernel calls as ADD_JIT, ...: those it was compiled with
kernel_globals(func, globals) == func.globals

\* cls._compile_special_functions(target): the module after the call
compile_special_functions(cls, ufunc_mode, m) ==
    IF ufunc_mode = "python-calculate"
    THEN [m EXCEPT !.funcs[cls]["poly_evaluate"] = np_vectorize(cls)]
    ELSE [globals |-> cls,
          funcs |-> [m.funcs EXCEPT ![cls] = [k \in JITKernels |-> numba_jit(cls)]]]

\* the four kernel bodies with ADD_JIT, ... being the operators of GF(q); matmul
\* on a (1, K) and a (K, 1) array, the others on 1-D arrays
jit_kernel(kernel, q, a, b) ==
    IF kernel = "matmul"
    THEN matmul_jit(q, Array(q, <<1, Len(a)>>, a), Array(q, <<Len(b), 1>>, b)).data
    ELSE IF kernel = "convolve" THEN convolve_jit(q, a, b)
    ELSE IF kernel = "poly_divmod" THEN poly_divmod_jit(q, a, b).value
    ELSE poly_evaluate_jit(q, a, b)

\* cls._funcs[kernel](a, b)
funcs_call(m, cls, kernel, a, b) ==
    IF m.funcs[cls][kernel].compiled = "vectorize"
    THEN poly_evaluate_vectorized(cls, a, b)
    ELSE jit_kernel(kernel, kernel_globals(m.funcs[cls][kernel], m.globals), a, b)

\* --------------------------------------------------------------------- state
VARIABLES
    op,         \* the last call: "init", "new", "encode", "parity", "decode"
    rs,         \* the ReedSolomon object
    raised,     \* the exception the last call raised, "" if none
    message,    \* the message passed to encode
    codeword,   \* what encode returned
    errors,     \* per row, the error pattern added to the codeword
    received,   \* the array passed to decode
    decoded,    \* what decode returned: [message, N_errors]
    module,     \* meta_mixin_jit: the field ADD_JIT, ... are bound to, and each field's _funcs
    frame       \* the local variables of a running equal_degree_factorization

vars == <<op, rs, raised, message, codeword, errors, received, decoded, module, frame>>

None == [none |-> TRUE]

\* meta_mixin_jit as imported: the globals are the placeholder lambdas and no
\* field has compiled its functions
NoFunc == [compiled |-> "", globals |-> 0]

NoModule == [globals |-> 0, funcs |-> [cls \in JITFields |-> [k \in JITKernels |-> NoFunc]]]

Init ==
    /\ op = "init"
    /\ rs = NoObject
    /\ raised = ""
    /\ message = None
    /\ codeword = None
    /\ errors = None
    /\ received = None
    /\ decoded = None
    /\ module = NoModule
    /\ frame = None

NewReturn(r) ==
    /\ rs' = r.obj
    /\ raised' = r.raised

\* rs = ReedSolomon(n, k, c, systematic=systematic)
New(n, k, c, systematic) ==
    /\ op = "init"
    /\ NewReturn(ReedSolomon(n, k, c, systematic))
    /\ op' = "new"
    /\ UNCHANGED <<message, codeword, errors, received, decoded, module, frame>>

EncodeReturn(r) ==
    /\ codeword' = IF IsRaised(r) THEN None ELSE r
    /\ raised' = IF IsRaised(r) THEN r.raised ELSE ""

EncodeCall(m, parity_only) ==
    /\ message' = m
    /\ EncodeReturn(encode(rs, m, parity_only))

\* codeword = rs.encode(message, parity_only)
Encode(s, parity_only) ==
    /\ op = "new"
    /\ rs.constructed
    /\ EncodeCall(Vector(rs.field, MessageOf(rs.field, rs.k, s)), parity_only)
    /\ op' = IF parity_only THEN "parity" ELSE "encode"
    /\ UNCHANGED <<rs, errors, received, decoded, module, frame>>

\* an array of N messages of length L (1-D when N = 1), message r being
\* number s + r - 1
MessageArray(q, L, s, N) ==
    IF N = 1 THEN Vector(q, MessageOf(q, L, s))
    ELSE Array(q, <<N, L>>,
               [idx \in 1 .. (N * L) |-> MessageOf(q, L, s + ((idx - 1) \div L))[((idx - 1) % L) + 1]])

\* codeword = rs.encode(message, parity_only) for a batch of N messages or for
\* messages whose length is k + d
EncodeShaped(s, d, N, parity_only) ==
    /\ op = "new"
    /\ rs.constructed
    /\ d # 0 \/ N > 1
    /\ rs.k + d >= 0
    /\ EncodeCall(MessageArray(rs.field, rs.k + d, s, N), parity_only)
    /\ op' = IF parity_only THEN "parity_nd" ELSE "encode_nd"
    /\ UNCHANGED <<rs, errors, received, decoded, module, frame>>

DecodeReturn(r) ==
    /\ decoded' = IF IsRaised(r) THEN None ELSE r
    /\ raised' = IF IsRaised(r) THEN r.raised ELSE ""

\* variant: the corrected message symbols are written into the caller's array
DecodeCall_in_place(arg) ==
    /\ received' = IF ~IsRaised(decode(rs, arg)) /\ Ndim(arg) = 1 /\ rs.systematic
                   THEN Vector(arg.field, decode(rs, arg).message
                                              \o Slice(arg.data, rs.k, Len(arg.data)))
                   ELSE arg
    /\ DecodeReturn(decode(rs, arg))

DecodeCall(arg) ==
    /\ received' = arg
    /\ DecodeReturn(decode(rs, arg))

\* row r of the batch: the codeword plus e without its last r - 1 errors
ReceivedRows(e, N) == [r \in 1 .. N |-> AddPattern(rs.field, codeword.data, DropLast(e, r - 1))]

\* message, N_errors = rs.decode(codeword + e, errors=True); a single word is
\* passed 1-D, N > 1 words as an (N, n) array
Decode(e, N) ==
    /\ op = "encode"
    /\ codeword # None
    /\ errors' = [r \in 1 .. N |-> DropLast(e, r - 1)]
    /\ DecodeCall(IF N = 1 THEN Vector(rs.field, ReceivedRows(e, N)[1])
                  ELSE FromRows(rs.field, ReceivedRows(e, N)))
    /\ op' = "decode"
    /\ UNCHANGED <<rs, message, codeword, module, frame>>

\* the codeword with its last symbol removed (d = -1) or a zero appended (d = 1)
Resized(cw, d) == IF d < 0 THEN Slice(cw, 0, Len(cw) + d) ELSE cw \o [i \in 1 .. d |-> 0]

\* rs.decode(word, errors=True) for a word, or N equal words, of length n + d
DecodeShaped(d, N) ==
    /\ op = "encode"
    /\ codeword # None
    /\ d # 0
    /\ UNCHANGED errors
    /\ DecodeCall(IF N = 1 THEN Vector(rs.field, Resized(codeword.data, d))
                  ELSE FromRows(rs.field, [r \in 1 .. N |-> Resized(codeword.data, d)]))
    /\ op' = "decode_nd"
    /\ UNCHANGED <<rs, message, codeword, module, frame>>

\* every n tried with every k from 0 to n + 2 (k = n and k > n included)
Next ==
    \/ \E n \in CodewordSizes, c \in 0 .. MaxC, systematic \in BOOLEAN :
           \E k \in 0 .. (n + 2) : New(n, k, c, systematic)
    \/ \E s \in 0 .. MaxSeed, parity_only \in BOOLEAN : Encode(s, parity_only)
    \/ \E N \in 1 .. MaxBatch : \E e \in PatternsFor(op, rs) : Decode(e, N)
    \/ \E s \in 0 .. MaxSeed, d \in {-1, 0, 1}, N \in 1 .. MaxBatch, parity_only \in BOOLEAN :
           EncodeShaped(s, d, N, parity_only)
    \/ \E d \in {-1, 1}, N \in 1 .. MaxBatch : DecodeShaped(d, N)

Spec == Init /\ [][Next]_vars

\* the same calls on the one code RS(6, 2), systematic: its t = 2 and n = 6 let
\* a received word lie at distance 3 from every codeword
NextRS62 ==
    \/ \E c \in 1 .. MaxC : New(WideCode[1], WideCode[2], c, TRUE)
    \/ \E s \in 0 .. MaxSeed, parity_only \in BOOLEAN : Encode(s, parity_only)
    \/ \E N \in 1 .. MaxBatch : \E e \in PatternsFor(op, rs) : Decode(e, N)

SpecRS62 == Init /\ [][NextRS62]_vars

\* ------------------------------------------------------------ kernel calls
\* The kernels called on their own, on arrays of a prime and of an extension
\* field: message and received hold the two operands, decoded the result.
KernelFields == {3, 4}

\* a scalar, vectors, matrices and a 3-D array
KernelShapes == {<<>>, <<1>>, <<2>>, <<1, 1>>, <<1, 2>>, <<2, 1>>, <<1, 1, 1>>}

RECURSIVE Cells(_)
Cells(shape) == IF Len(shape) = 0 THEN 1 ELSE shape[1] * Cells(Tail(shape))

ArraysOf(q, shape) == {Array(q, shape, d) : d \in [1 .. Cells(shape) -> 0 .. (q - 1)]}

KernelArrays == UNION {ArraysOf(q, shape) : q \in KernelFields, shape \in KernelShapes}

KernelReturn(r) ==
    /\ decoded' = IF IsRaised(r) THEN None ELSE r
    /\ raised' = IF IsRaised(r) THEN r.raised ELSE ""

\* C = A @ B
Matmul(A, B) ==
    /\ op = "init"
    /\ message' = A
    /\ received' = B
    /\ KernelReturn(matmul(A, B))
    /\ op' = "matmul"
    /\ UNCHANGED <<rs, codeword, errors, module, frame>>

\* the 1-D arrays of 1 .. L coefficients over GF(q), the zero polynomial and
\* the arrays with leading zeros among them
MaxCoeffs == 3
DivisorSizes == 1 .. 2
PolysOf(q, sizes) == UNION {ArraysOf(q, <<l>>) : l \in sizes}

\* (q, r) = field._poly_divmod(a, b), by the kernel of the ufunc mode
PolyDivmod(a, b, ufunc_mode) ==
    /\ op = "init"
    /\ message' = a
    /\ received' = b
    /\ KernelReturn(IF ufunc_mode = "python-calculate" THEN poly_divmod_calculate(a, b)
                    ELSE poly_divmod(a, b))
    /\ op' = IF ufunc_mode = "python-calculate" THEN "poly_divmod_python" ELSE "poly_divmod"
    /\ UNCHANGED <<rs, codeword, errors, module, frame>>

NextKernels ==
    \/ \E A \in KernelArrays, B \in KernelArrays : Matmul(A, B)
    \/ \E q \in KernelFields, ufunc_mode \in {"jit-lookup", "python-calculate"} :
           \E a \in PolysOf(q, 1 .. MaxCoeffs), b \in PolysOf(q, DivisorSizes) :
               PolyDivmod(a, b, ufunc_mode)

SpecKernels == Init /\ [][NextKernels]_vars

\* y = field._poly_evaluate(coeffs, x), by the kernel of the ufunc mode
EvaluateShapes == {<<>>, <<1>>, <<2>>, <<1, 1>>}

PolyEvaluate(coeffs, x, ufunc_mode) ==
    /\ op = "init"
    /\ message' = coeffs
    /\ received' = x
    /\ KernelReturn(poly_evaluate(coeffs, x, ufunc_mode))
    /\ op' = IF ufunc_mode = "python-calculate" THEN "poly_evaluate_python" ELSE "poly_evaluate"
    /\ UNCHANGED <<rs, codeword, errors, module, frame>>

NextEvaluate ==
    \/ \E q \in KernelFields, ufunc_mode \in {"jit-lookup", "python-calculate"} :
           \E coeffs \in PolysOf(q, 1 .. MaxCoeffs) :
               \E x \in UNION {ArraysOf(q, shape) : shape \in EvaluateShapes} :
                   PolyEvaluate(coeffs, x, ufunc_mode)

SpecEvaluate == Init /\ [][NextEvaluate]_vars

\* c = field._convolve(a, b); over GF(13) the coefficients are 0, 1 and p - 1,
\* whose products exceed the dtype of the field
ConvolveFields == KernelFields \cup {WideField}

ConvolveArrays(q, sizes) ==
    UNION {{Vector(q, d) : d \in [1 .. l -> IF q = WideField THEN {0, 1, q - 1} ELSE 0 .. (q - 1)]}
           : l \in sizes}

Convolve(a, b, ufunc_mode) ==
    /\ op = "init"
    /\ message' = a
    /\ received' = b
    /\ KernelReturn(convolve(a, b, ufunc_mode))
    /\ op' = IF ufunc_mode = "python-calculate" THEN "convolve_python" ELSE "convolve"
    /\ UNCHANGED <<rs, codeword, errors, module, frame>>

NextConvolve ==
    \/ \E q \in ConvolveFields, ufunc_mode \in {"jit-lookup", "python-calculate"} :
           \E a \in ConvolveArrays(q, 1 .. MaxCoeffs), b \in ConvolveArrays(q, DivisorSizes) :
               Convolve(a, b, ufunc_mode)

SpecConvolve == Init /\ [][NextConvolve]_vars

\* factors, multiplicities = galois.poly_factors(f) for a non-constant f of
\* degree at most MaxDegree
FactorFields == {2, 3, 4}
MaxDegree == 3

NonConstant(q, degrees) ==
    {f \in UNION {[1 .. (deg + 1) -> 0 .. (q - 1)] : deg \in degrees} : f[1] # 0}

PolyFactors(q, f) ==
    /\ op = "init"
    /\ message' = Vector(q, f)
    /\ decoded' = poly_factors(q, f)
    /\ op' = "poly_factors"
    /\ UNCHANGED <<rs, codeword, errors, received, raised, module, frame>>

NextFactors ==
    \/ \E q \in FactorFields : \E f \in NonConstant(q, 1 .. MaxDegree) : PolyFactors(q, f)

SpecFactors == Init /\ [][NextFactors]_vars

\* galois.equal_degree_factorization(poly, d) for a monic poly of degree 1 to
\* MaxDegree over a field of even or of odd characteristic and a d dividing
\* the degree: the call up to the loop
EqualDegreeFields == {2, 3}

EqualDegreeCall(q, poly, d) ==
    /\ op = "init"
    /\ poly[1] = 1
    /\ (Len(poly) - 1) % d = 0
    /\ message' = Vector(q, poly)
    /\ frame' = [d |-> d, n |-> Len(poly) - 1, r |-> (Len(poly) - 1) \div d, factors_ |-> <<poly>>]
    /\ op' = "equal_degree"
    /\ UNCHANGED <<rs, codeword, errors, received, decoded, raised, module>>

\* one iteration of the loop, h = Poly.Random(random.randint(1, n - 1))
EqualDegreeIterate(h) ==
    /\ op = "equal_degree"
    /\ Len(frame.factors_) < frame.r
    /\ \E g \in {poly_gcd(message.field, message.data, h)} :
           frame' = [frame EXCEPT !.factors_ =
                        edf_iteration(message.field, message.data, frame.d, h, frame.factors_, g)]
    /\ UNCHANGED <<op, rs, codeword, errors, received, decoded, raised, message, module>>

\* the loop left: the factors sorted by their integer, returned
EqualDegreeReturn ==
    /\ op = "equal_degree"
    /\ Len(frame.factors_) >= frame.r
    /\ decoded' = LET sorted == poly_factors_sorted(message.field,
                                    [n \in 1 .. Len(frame.factors_) |->
                                        [factor |-> frame.factors_[n], multiplicity |-> 1]])
                  IN  [n \in 1 .. Len(sorted) |-> sorted[n].factor]
    /\ op' = "equal_degree_returned"
    /\ UNCHANGED <<rs, codeword, errors, received, raised, message, module, frame>>

EqualDegreeLoop ==
    \E h \in NonConstant(message.field, 1 .. (frame.n - 1)) : EqualDegreeIterate(h)

NextEqualDegree ==
    \/ \E q \in EqualDegreeFields, d \in 1 .. MaxDegree :
           \E poly \in NonConstant(q, 1 .. MaxDegree) : EqualDegreeCall(q, poly, d)
    \/ op = "equal_degree" /\ EqualDegreeLoop
    \/ EqualDegreeReturn

SpecEqualDegree == Init /\ [][NextEqualDegree]_vars

\* random.randint and Poly.Random are uniform: an h that splits a factor is
\* drawn eventually while there is one, and the return follows the loop
FairEqualDegree ==
    /\ SpecEqualDegree
    /\ WF_vars(op = "equal_degree" /\ EqualDegreeLoop)
    /\ WF_vars(EqualDegreeReturn)

\* ------------------------------------------------------ the derivative of sigma
\* Lines 579-583 of decode_calculate on their own, on every sigma Berlekamp-Massey
\* can hand over (constant term 1, v further coefficients) in fields of
\* characteristic 2, 3 and 5: message holds sigma, decoded sigma_prime.
DerivativeFields == {2, 3, 4, 5}
MaxErrors == 3

Sigmas(q) ==
    UNION {{Append(s, 1) : s \in [1 .. v -> 0 .. (q - 1)]} : v \in 0 .. MaxErrors}

SigmaPrime(q, sigma) ==
    /\ op = "init"
    /\ message' = Vector(q, sigma)
    /\ decoded' = sigma_derivative(q, sigma, Len(sigma) - 1)
    /\ op' = "sigma_prime"
    /\ UNCHANGED <<rs, raised, codeword, errors, received, module, frame>>

NextDerivative == \E q \in DerivativeFields : \E sigma \in Sigmas(q) : SigmaPrime(q, sigma)

SpecDerivative == Init /\ [][NextDerivative]_vars

\* ------------------------------------------------- kernels of several fields
\* Field classes compile their functions in any order and any number of times,
\* in either mode, and call them in between: message and received hold the
\* operands of the last call, decoded its result. The operands are arrays of
\* the symbols 0, 1, 2, which every field tried has; divisors and second
\* operands have no zero entry.
JITOperands == [1 .. 2 -> 0 .. 2]
JITDivisors == [1 .. 2 -> 1 .. 2]

\* cls.compile(ufunc_mode), which ends in cls._compile_special_functions(target)
Compile(cls, ufunc_mode) ==
    /\ module' = compile_special_functions(cls, ufunc_mode, module)
    /\ op' = "compile"
    /\ message' = None
    /\ received' = None
    /\ decoded' = None
    /\ UNCHANGED <<rs, raised, codeword, errors, frame>>

\* cls._funcs[kernel](a, b) on arrays of the class cls; a call leaves the module
\* as it is, so the calls explored are those made right after a compile
FuncsCall(cls, kernel, a, b) ==
    /\ op = "compile"
    /\ module.funcs[cls][kernel] # NoFunc
    /\ message' = Vector(cls, a)
    /\ received' = Vector(cls, b)
    /\ decoded' = funcs_call(module, cls, kernel, a, b)
    /\ op' = kernel
    /\ UNCHANGED <<rs, raised, codeword, errors, module, frame>>

NextJIT ==
    \/ \E cls \in JITFields, ufunc_mode \in {"jit-calculate", "python-calculate"} :
           Compile(cls, ufunc_mode)
    \/ \E cls \in JITFields, kernel \in JITKernels :
           \E a \in JITOperands, b \in JITDivisors : FuncsCall(cls, kernel, a, b)

SpecJIT == Init /\ [][NextJIT]_vars

\* ------------------------------------------------------------------ properties
\* the count decode returned for row r of the received array
CountOfRow(r) == IF Ndim(received) = 1 THEN decoded.N_errors ELSE decoded.N_errors[r]

IsZero(A) == ~IsRaised(A) /\ \A i \in 1 .. Len(A.data) : A.data[i] = 0

\* C1: for every codec, systematic or not, decoding the unchanged encoding of
\* a message returns that message with the error count 0
C1_RoundTrip ==
    (op = "decode" /\ Ndim(received) = 1 /\ Weight(errors[1]) = 0)
        => (raised = "" /\ decoded.message = message.data /\ decoded.N_errors = 0)

\* C2: for every c >= 1, decoding a codeword with 1 to t symbol errors returns
\* the original message; stated for the systematic codecs, whose decode returns
\* dec_codeword[:, 0:k]
C2_ErrorsCorrected ==
    (op = "decode" /\ rs.systematic /\ Ndim(received) = 1 /\ Weight(errors[1]) \in 1 .. rs.t)
        => (raised = "" /\ decoded.message = message.data)

\* C3: decoding a codeword with w <= t symbol errors reports exactly w errors
C3_CountIsWeight ==
    (op = "decode" /\ Ndim(received) = 1 /\ Weight(errors[1]) <= rs.t)
        => (raised = "" /\ decoded.N_errors = Weight(errors[1]))

\* C4: decode raises no exception, whatever length-n word it is given
C4_DecodeNeverRaises == (op = "decode") => (raised = "")

\* C5: every error count decode reports is -1 or lies in 0..t
C5_CountRange ==
    (op = "decode" /\ raised = "")
        => \A r \in 1 .. Len(errors) : CountOfRow(r) = -1 \/ CountOfRow(r) \in 0 .. rs.t

\* a batch whose first row is reported uncorrectable and whose second row has
\* t >= 1 corrected errors
C5_Witness ==
    /\ op = "decode" /\ raised = "" /\ Ndim(received) = 2
    /\ rs.t >= 1
    /\ decoded.N_errors[1] = -1
    /\ decoded.N_errors[2] = rs.t

\* C6: for every constructed codec H * G^T is all zero, and so is the syndrome
\* codeword * H^T of every word encode returns
C6_ParityCheck ==
    rs.constructed =>
        /\ IsZero(matmul(rs.H, Transpose(rs.G)))
        /\ (op = "encode" /\ raised = "") => IsZero(matmul(codeword, Transpose(rs.H)))

\* a non-zero codeword of a codec with message and parity symbols
C6_Witness ==
    /\ op = "encode" /\ raised = ""
    /\ rs.t >= 1 /\ rs.k >= 1
    /\ \E i \in 1 .. Len(codeword.data) : codeword.data[i] # 0

\* the batch's result for row r is what decode gave for that row alone
SameOutcome(r, single) ==
    IF IsRaised(single) THEN raised = single.raised
    ELSE /\ raised = ""
         /\ decoded.message[r] = single.message
         /\ decoded.N_errors[r] = single.N_errors

\* C7: the message and count a batch decode returns for row i are those of
\* decoding row i alone, whatever the other rows hold
C7_RowsIndependent ==
    (op = "decode" /\ Ndim(received) = 2)
        => \A r \in 1 .. received.shape[1] :
               SameOutcome(r, decode(rs, Vector(rs.field, RowOf(received, r - 1))))

\* C8: the constructor raises when n + 1 is no prime power, n - k is odd or
\* c < 1, and then no codec is returned and no generator polynomial, G or H exists
C8_InvalidRejected ==
    (op = "new" /\ (~IsPrimePower(rs.n + 1) \/ PyMod(rs.n - rs.k, 2) # 0 \/ rs.c < 1))
        => /\ raised = "ValueError"
           /\ ~rs.constructed
           /\ ~Has(rs, "generator_poly") /\ ~Has(rs, "G") /\ ~Has(rs, "H")

\* a constructor call rejected for its c alone
C8_Witness ==
    /\ op = "new" /\ raised = "ValueError"
    /\ rs.c < 1 /\ IsPrimePower(rs.n + 1) /\ PyMod(rs.n - rs.k, 2) = 0

\* C9: every constructed codec has n - k even, c >= 1, t = (n - k) / 2 and
\* 2t roots, for every (n, k) the constructor accepts
C9_Capability ==
    rs.constructed =>
        /\ PyMod(rs.n - rs.k, 2) = 0
        /\ rs.c >= 1
        /\ 2 * rs.t = rs.n - rs.k
        /\ Len(rs.roots) = 2 * rs.t

SystematicParts(self, cw, m, parity) ==
    /\ ~IsRaised(cw) /\ ~IsRaised(parity)
    /\ cw.shape = [m.shape EXCEPT ![Ndim(m)] = self.n]
    /\ parity.shape = [m.shape EXCEPT ![Ndim(m)] = self.n - self.k]
    /\ Columns(atleast_2d(cw), 0, self.k).data = m.data
    /\ Columns(atleast_2d(cw), self.k, self.n).data = parity.data
    /\ parity = matmul(m, Columns(self.G, self.k, self.n))

\* C11: for a systematic codec encode(m) is m followed by n - k parity symbols,
\* and encode(m, parity_only=True) is exactly those symbols, m * G[:, k:], for
\* one message and for each row of a batch
C11_Systematic ==
    /\ (op \in {"encode", "encode_nd"} /\ raised = "" /\ rs.systematic)
           => SystematicParts(rs, codeword, message, encode(rs, message, TRUE))
    /\ (op \in {"parity", "parity_nd"} /\ raised = "")
           => SystematicParts(rs, encode(rs, message, FALSE), message, codeword)

\* a batch of two messages, not all zero, encoded with parity symbols
C11_Witness ==
    /\ op = "encode_nd" /\ raised = "" /\ rs.systematic
    /\ Ndim(message) = 2 /\ rs.k >= 1 /\ rs.t >= 1
    /\ \E i \in 1 .. Len(codeword.data) : codeword.data[i] # 0

\* the call ended with ValueError raised by the named test, and returned nothing
RejectedBy(result, where) ==
    /\ raised = "ValueError" /\ codeword = None
    /\ IsRaised(result) /\ result.raised = "ValueError" /\ result.where = where

\* C12: encode raises ValueError and returns no codeword when parity_only is
\* asked of a non-systematic codec and when the message's last dimension is not
\* k, the first test being made before the second
C12_EncodeRejects ==
    /\ (op \in {"parity", "parity_nd"} /\ ~rs.systematic)
           => RejectedBy(encode(rs, message, TRUE), "parity_only")
    /\ (op \in {"parity", "parity_nd"} /\ rs.systematic /\ message.shape[Ndim(message)] # rs.k)
           => RejectedBy(encode(rs, message, TRUE), "message")
    /\ (op \in {"encode", "encode_nd"} /\ message.shape[Ndim(message)] # rs.k)
           => RejectedBy(encode(rs, message, FALSE), "message")

\* parity_only asked of a non-systematic codec with a message of the wrong length
C12_Witness ==
    /\ op = "parity_nd" /\ ~rs.systematic
    /\ message.shape[Ndim(message)] # rs.k
    /\ raised = "ValueError"

\* the call ended with ValueError raised by the shape test of the syndrome
\* product codeword @ H.T, so decode_calculate was not entered
RejectedByProduct(result) ==
    /\ raised = "ValueError" /\ decoded = None
    /\ IsRaised(result) /\ result.raised = "ValueError"
    /\ result.where \in {"matmul", "np.matmul"}

\* C13: decode of a word whose last dimension is not n ends with a shape error
\* before any symbol is multiplied and before decode_calculate, over prime and
\* extension fields
C13_DecodeRejects ==
    (op = "decode_nd") => RejectedByProduct(decode(rs, received))

\* a batch of words one symbol too long given to a codec over GF(2^2)
C13_Witness ==
    /\ op = "decode_nd" /\ raised = "ValueError"
    /\ Degree(rs.field) > 1
    /\ Ndim(received) = 2 /\ received.shape[2] = rs.n + 1

\* the rows of an array, a 1-D array being one row
RowsOf(A) == Rows(atleast_2d(A))

\* the arrays the caller passed still hold what was passed: the messages given
\* to encode, and the words codeword + e (or the resized codeword) given to decode
ArgumentsKept ==
    /\ op \in {"encode", "parity", "encode_nd", "parity_nd"}
           => \E s \in 0 .. MaxSeed :
                  message = MessageArray(rs.field, message.shape[Ndim(message)], s,
                                         IF Ndim(message) = 1 THEN 1 ELSE message.shape[1])
    /\ op = "decode"
           => RowsOf(received) = [r \in 1 .. Len(errors) |->
                                     AddPattern(rs.field, codeword.data, errors[r])]
    /\ op = "decode_nd"
           => \A r \in 1 .. Len(RowsOf(received)) :
                  RowsOf(received)[r]
                      = Resized(codeword.data, received.shape[Ndim(received)] - rs.n)

\* C14: once the codec is constructed, every encode and decode call, returning
\* or raising, leaves n, k, c, t, systematic, generator_poly, roots, G and H as
\* they were, and leaves the arrays of the caller as they were passed
C14_Frame ==
    [][(op # "init") =>
          /\ rs' = rs
          /\ ArgumentsKept'
          /\ (op = "encode" => (message' = message /\ codeword' = codeword))]_vars

\* a decode that corrected the errors of the word it was given
C14_Witness ==
    /\ op = "decode" /\ raised = "" /\ Ndim(received) = 1
    /\ Weight(errors[1]) >= 1
    /\ decoded.N_errors = Weight(errors[1])
    /\ decoded.message = message.data
    /\ received.data # codeword.data

\* the messages decode returned, one per row of the received array
MessagesOf(result) == IF Ndim(received) = 1 THEN <<result.message>> ELSE result.message

\* C15: for a non-systematic codec encode(m) is m * G, the coefficients of
\* m(x) g(x), and decode of a codeword with at most t errors returns m, the
\* quotient of the corrected word by g(x), for one word and for each row of a batch
C15_NonSystematic ==
    /\ (op \in {"encode", "encode_nd"} /\ raised = "" /\ ~rs.systematic)
           => /\ codeword = matmul(message, rs.G)
              /\ \A r \in 1 .. Len(RowsOf(message)) :
                     RowsOf(codeword)[r]
                         = CONVOLVE(rs.field, RowsOf(message)[r], rs.generator_poly)
    /\ (op = "decode" /\ ~rs.systematic /\ \A r \in 1 .. Len(errors) : Weight(errors[r]) <= rs.t)
           => /\ raised = ""
              /\ \A r \in 1 .. Len(errors) : MessagesOf(decoded)[r] = message.data

\* both operands of A @ B are of one field and have 1 or 2 dimensions
Multipliable(A, B) == A.field = B.field /\ Ndim(A) \in {1, 2} /\ Ndim(B) \in {1, 2}

\* C16: A @ B raises a shape error and returns nothing when, 1-D operands
\* promoted, the last dimension of A is not the second-to-last of B, over
\* prime and extension fields
C16_MatmulShape ==
    (op = "matmul" /\ Multipliable(message, received)
        /\ AsRow(message).shape[2] # AsColumn(received).shape[1])
        => (raised = "ValueError" /\ decoded = None)

\* a row of two entries times a row of two entries over GF(2^2)
C16_Witness ==
    /\ op = "matmul" /\ raised = "ValueError"
    /\ message.field = received.field /\ Degree(message.field) > 1
    /\ message.shape = <<1, 2>> /\ received.shape = <<1, 2>>

\* C17: A @ B with operands of different fields raises TypeError whatever
\* their dimensions and shapes; operands of one field raise ValueError when
\* one of them has 0 or more than 2 dimensions
C17_MatmulTypes ==
    /\ (op = "matmul" /\ message.field # received.field)
           => (raised = "TypeError" /\ decoded = None)
    /\ (op = "matmul" /\ message.field = received.field
            /\ ~(Ndim(message) \in {1, 2} /\ Ndim(received) \in {1, 2}))
           => (raised = "ValueError" /\ decoded = None)

\* a scalar of one field times a matrix of another
C17_Witness ==
    /\ op = "matmul" /\ raised = "TypeError"
    /\ message.field # received.field
    /\ Ndim(message) = 0 /\ Ndim(received) = 2

\* the shape of A @ B by the numbers of dimensions of A and B
ExpectedShape(A, B) ==
    CASE Ndim(A) = 1 /\ Ndim(B) = 1 -> <<>>
      [] Ndim(A) = 2 /\ Ndim(B) = 1 -> <<A.shape[1]>>
      [] Ndim(A) = 1 /\ Ndim(B) = 2 -> <<B.shape[2]>>
      [] OTHER -> <<A.shape[1], B.shape[2]>>

\* C18: A @ B has shape (), (M,), (N,) or (M, N) by the dimensions of the
\* operands, every entry is the field sum over k of A[i,k] * B[k,j], and the
\* JIT loop and the pure-Python variant give that same matrix
C18_MatmulValue ==
    (op = "matmul" /\ raised = "") =>
        /\ decoded.shape = ExpectedShape(message, received)
        /\ decoded.field = message.field
        /\ decoded.data = matmul_python(message.field, AsRow(message), AsColumn(received)).data
        /\ decoded.data = matmul_jit(message.field, AsRow(message), AsColumn(received)).data

\* a (1, 2) by (2, 1) product over GF(2^2), both of whose terms are non-zero
C18_Witness ==
    /\ op = "matmul" /\ raised = ""
    /\ Degree(message.field) > 1
    /\ message.shape = <<1, 2>> /\ received.shape = <<2, 1>>
    /\ \A i \in 1 .. 2 : message.data[i] # 0 /\ received.data[i] # 0
    /\ decoded.shape = <<1, 1>>

\* a call of field._poly_divmod has returned or raised
Divided == op \in {"poly_divmod", "poly_divmod_python"}

\* quotient * b + rest over GF(q), rest aligned with the lowest degrees
Recomposed(q, quotient, b, rest) ==
    [idx \in 1 .. (Len(quotient) + Len(b) - 1) |->
        ADD(q, CONVOLVE(q, quotient, b)[idx],
            IF idx > Len(quotient) + Len(b) - 1 - Len(rest)
            THEN rest[idx - (Len(quotient) + Len(b) - 1 - Len(rest))] ELSE 0)]

\* qr after the iterations 0 .. i of the long-division loop of the mode
LoopState(mode, q, a, b, i) ==
    IF mode = "poly_divmod_python" THEN poly_divmod_python_loop(q, a, b, 0, i).value
    ELSE poly_divmod_loop(q, a, b, 0, i).value

\* after iteration i: qr[0..i] are coefficients of the returned quotient, and
\* a = (qr[0..i] * x^(q_degree - i)) * b + qr[i+1..]
LoopInvariant(q, a, b, quotient, qr, i) ==
    /\ Slice(qr, 0, i + 1) = Slice(quotient, 0, i + 1)
    /\ Recomposed(q, Slice(qr, 0, i + 1) \o [z \in 1 .. (Len(a) - Len(b) - i) |-> 0], b,
                  Slice(qr, i + 1, Len(qr))) = a

\* C19: for a.size >= b.size and b[0] # 0, poly_divmod returns a quotient of
\* a.size - b.size + 1 coefficients and a remainder of b.size - 1 coefficients
\* with a = quotient * b + remainder, and after each iteration i of the loop
\* qr[0..i] is final and a = q_partial * b + rest
C19_PolyDivmod ==
    (Divided /\ Size(message) >= Size(received) /\ received.data[1] # 0) =>
        /\ raised = ""
        /\ Size(decoded.quotient) = Size(message) - Size(received) + 1
        /\ Size(decoded.remainder) = Size(received) - 1
        /\ Recomposed(message.field, decoded.quotient.data, received.data,
                      decoded.remainder.data) = message.data
        /\ \A i \in 0 .. (Size(message) - Size(received)) :
               LoopInvariant(message.field, message.data, received.data,
                             decoded.quotient.data,
                             LoopState(op, message.field, message.data, received.data, i), i)

\* three coefficients by two over GF(3), leading coefficient 2, with a
\* non-zero remainder and a quotient without a zero
C19_Witness ==
    /\ op = "poly_divmod" /\ raised = ""
    /\ message.field = 3 /\ Size(message) = 3 /\ Size(received) = 2
    /\ received.data[1] = 2
    /\ \A i \in 1 .. 2 : decoded.quotient.data[i] # 0
    /\ decoded.remainder.data # <<0>>

\* C20: poly_divmod by the zero polynomial raises a divide-by-zero error for
\* every dividend, the zero polynomial and dividends with leading zeros
\* included, and returns no quotient and remainder
C20_DivideByZero ==
    (Divided /\ Size(message) >= Size(received)
        /\ \A i \in 1 .. Size(received) : received.data[i] = 0)
        => (raised = "ZeroDivisionError" /\ decoded = None)

\* a call of field._poly_evaluate has returned or raised
Evaluated == op \in {"poly_evaluate", "poly_evaluate_python"}

\* sum over j of coeffs[j] * x^(size - 1 - j), coefficients in descending degree
RECURSIVE PowerSum(_, _, _, _)
PowerSum(q, coeffs, x, j) ==
    IF j = 0 THEN 0
    ELSE ADD(q, PowerSum(q, coeffs, x, j - 1),
             MULTIPLY(q, coeffs[j], POWER(q, x, Len(coeffs) - j)))

\* C21: poly_evaluate(coeffs, x) returns for every element x[i] the field sum
\* over j of coeffs[j] * x[i]^(size-1-j), a value of x[i] alone, and the JIT
\* and the pure-Python kernels return the same array
C21_PolyEvaluate ==
    Evaluated =>
        /\ raised = ""
        /\ Size(decoded) = Size(received)
        /\ \A i \in 1 .. Size(received) :
               decoded.data[i] = PowerSum(message.field, message.data, received.data[i],
                                          Size(message))
        /\ decoded = poly_evaluate(message, received, "jit-lookup")
        /\ decoded = poly_evaluate(message, received, "python-calculate")

\* three coefficients evaluated at two different values with different results
C21_Witness ==
    /\ op = "poly_evaluate" /\ raised = ""
    /\ Size(message) = 3 /\ message.data[1] # 0
    /\ received.shape = <<2>> /\ received.data[1] # received.data[2]
    /\ decoded.shape = <<2>> /\ decoded.data[1] # decoded.data[2]

\* a call of field._convolve has returned or raised
Convolved == op \in {"convolve", "convolve_python"}

\* the field sum over i of a[i] * b[k - i] (0-based k)
ConvolutionSum(q, a, b, k) ==
    LET I == {i \in 0 .. (Len(a) - 1) : k - i >= 0 /\ k - i < Len(b)}
        RECURSIVE SumOver(_)
        SumOver(S) == IF S = {} THEN 0
                      ELSE LET i == CHOOSE x \in S : TRUE
                           IN  ADD(q, MULTIPLY(q, a[i + 1], b[k - i + 1]), SumOver(S \ {i}))
    IN  SumOver(I)

\* C22: convolve(a, b) has a.size + b.size - 1 coefficients, c[k] the field
\* sum over i of a[i] * b[k-i]; the JIT loop, the pure-Python variant and,
\* over a prime field, the integer convolution reduced mod p give the same
\* result, and convolve(a, b) = convolve(b, a)
C22_Convolve ==
    Convolved =>
        /\ raised = ""
        /\ Size(decoded) = Size(message) + Size(received) - 1
        /\ \A k \in 1 .. Size(decoded) :
               decoded.data[k] = ConvolutionSum(message.field, message.data, received.data, k - 1)
        /\ decoded.data = convolve_jit(message.field, message.data, received.data)
        /\ decoded.data = convolve_python(message.field, message.data, received.data)
        /\ Degree(message.field) = 1
               => decoded.data = convolve_prime(message.field, message.data, received.data)
        /\ decoded = convolve(received, message, IF op = "convolve" THEN "jit-lookup"
                                                 ELSE "python-calculate")

\* two arrays of two coefficients p - 1 over GF(13): the middle sum is
\* 2 * 144, beyond uint8
C22_Witness ==
    /\ op = "convolve" /\ raised = ""
    /\ message.field = WideField
    /\ message.data = <<WideField - 1, WideField - 1>>
    /\ received.data = <<WideField - 1, WideField - 1>>
    /\ decoded.data = <<1, 2, 1>>

\* g has degree >= 1 and no divisor of a degree between 1 and deg g - 1
IsIrreducible(q, g) ==
    /\ Len(g) > 1
    /\ \A h \in NonConstant(q, 1 .. (Len(g) - 2)) : Poly_mod(q, g, h) # <<0>>

\* the product over n of factors[n] ^ multiplicities[n]
ProductOfPowers(q, factors, multiplicities) ==
    LET RECURSIVE power(_, _)
        power(g, e) == IF e = 0 THEN <<1>> ELSE Poly_mul(q, power(g, e - 1), g)
        RECURSIVE product(_)
        product(n) == IF n = 0 THEN <<1>>
                      ELSE Poly_mul(q, product(n - 1), power(factors[n], multiplicities[n]))
    IN  product(Len(factors))

\* C23: poly_factors(f) returns factors and multiplicities whose product of
\* powers is f, every factor irreducible, for every non-constant f
C23_PolyFactors ==
    op = "poly_factors" =>
        /\ ProductOfPowers(message.field, decoded.factors, decoded.multiplicities) = message.data
        /\ \A n \in 1 .. Len(decoded.factors) : IsIrreducible(message.field, decoded.factors[n])

\* the monic irreducible polynomials of degree d that divide poly
IrreducibleDivisors(q, poly, d) ==
    {g \in NonConstant(q, {d}) :
        g[1] = 1 /\ IsIrreducible(q, g) /\ Len(g) <= Len(poly) /\ Poly_mod(q, poly, g) = <<0>>}

\* poly is the product of r distinct monic irreducible polynomials of degree d
EqualDegreeProduct ==
    Cardinality(IrreducibleDivisors(message.field, message.data, frame.d)) = frame.r

\* the product of the polynomials of a list
ProductOf(q, factors) == ProductOfPowers(q, factors, [n \in 1 .. Len(factors) |-> 1])

\* the loop of equal_degree_factorization runs or has been left
InEqualDegree == op \in {"equal_degree", "equal_degree_returned"}

\* C24 as stated, its second part: an accepted input that is not a product of
\* r distinct irreducible factors of degree d never leaves the loop
C24_NoExit == (op = "equal_degree_returned") => EqualDegreeProduct

\* C24, amended: for a product of r distinct irreducible factors of degree d
\* the loop reaches r factors and returns them, with len(factors_) <= r
\* throughout; for every accepted input the product of factors_ is poly; an
\* irreducible poly with r >= 2 never returns, while other inputs that are no
\* such product may return
C24_EqualDegree ==
    /\ [](InEqualDegree => ProductOf(message.field, frame.factors_) = message.data)
    /\ []((InEqualDegree /\ EqualDegreeProduct) => Len(frame.factors_) <= frame.r)
    /\ (op = "equal_degree" /\ EqualDegreeProduct) ~> (op = "equal_degree_returned")
    /\ []((op = "equal_degree_returned" /\ EqualDegreeProduct) =>
              /\ Len(decoded) = frame.r
              /\ \A n \in 1 .. Len(decoded) :
                     Len(decoded[n]) = frame.d + 1 /\ IsIrreducible(message.field, decoded[n]))
    /\ []((InEqualDegree /\ frame.r >= 2 /\ IsIrreducible(message.field, message.data))
              => op # "equal_degree_returned")

\* three factors of degree 1 returned over GF(3)
C24_Witness ==
    /\ op = "equal_degree_returned" /\ EqualDegreeProduct
    /\ frame.r = 3 /\ message.field = 3 /\ Len(decoded) = 3

\* row r of the array decode was given, as decode_calculate sees it: the word
\* with the count column, and its syndrome word * H^T
ReceivedWord(r) == RowOf(atleast_2d(received), r - 1)

SyndromeOfRow(r) == Rows(matmul(atleast_2d(received), Transpose(rs.H)))[r]

\* what one iteration of decode_calculate's loop makes of row r
CalculatedRow(r) ==
    decode_row(rs.field, ReceivedWord(r) \o <<0>>, SyndromeOfRow(r), rs.t,
               primitive_element(rs.field), rs.n)

NonZero(s) == \E j \in 1 .. Len(s) : s[j] # 0

\* the count decode_calculate has to report for a row with non-zero syndrome:
\* -1 when v > t or the number of roots of sigma_rev is not v, else v
ExpectedCount(q, syndrome, t, v, roots) ==
    IF v > t \/ Len(roots) # v THEN -1 ELSE v

\* C25: a row with non-zero syndrome is reported as -1 exactly when v > t or
\* the number of roots found for sigma_rev differs from v, and as
\* v = sigma.size - 1 in every other case; a row with all-zero syndrome is
\* returned unchanged with the count 0
C25_Reported ==
    (op = "decode") =>
        \A r \in 1 .. Len(errors) :
            IF NonZero(SyndromeOfRow(r))
            THEN \A calculated \in {CalculatedRow(r)} :
                 /\ ~IsRaised(calculated)
                 /\ calculated.value[rs.n + 1] =
                        ExpectedCount(rs.field, SyndromeOfRow(r), rs.t,
                            Len(BERLEKAMP_MASSEY(rs.field, SyndromeOfRow(r))) - 1,
                            POLY_ROOTS(rs.field,
                                       BERLEKAMP_MASSEY(rs.field, Reverse(SyndromeOfRow(r))),
                                       primitive_element(rs.field)))
            ELSE CalculatedRow(r) = Returned(ReceivedWord(r) \o <<0>>)

\* the same, for the rows whose Forney loop ends without an exception
C25_ReportedIfReturned ==
    (op = "decode") =>
        \A r \in 1 .. Len(errors) :
            IF NonZero(SyndromeOfRow(r))
            THEN \A calculated \in {CalculatedRow(r)} :
                 \/ IsRaised(calculated)
                 \/ calculated.value[rs.n + 1] =
                        ExpectedCount(rs.field, SyndromeOfRow(r), rs.t,
                            Len(BERLEKAMP_MASSEY(rs.field, SyndromeOfRow(r))) - 1,
                            POLY_ROOTS(rs.field,
                                       BERLEKAMP_MASSEY(rs.field, Reverse(SyndromeOfRow(r))),
                                       primitive_element(rs.field)))
            ELSE CalculatedRow(r) = Returned(ReceivedWord(r) \o <<0>>)

\* the message decode returned for row r of the received array
MessageOfRow(r) == IF Ndim(received) = 1 THEN decoded.message ELSE decoded.message[r]

\* C26: whenever decode reports -1 for a word, no symbol of it has been
\* changed: decode_calculate leaves the row as received, and the message
\* returned by a systematic codec is the first k received symbols
C26_Untouched ==
    (op = "decode" /\ raised = "") =>
        \A r \in 1 .. Len(errors) :
            (CountOfRow(r) = -1) =>
                /\ CalculatedRow(r) = Returned(ReceivedWord(r) \o <<-1>>)
                /\ rs.systematic => MessageOfRow(r) = Slice(ReceivedWord(r), 0, rs.k)

\* a word with errors in its message symbols, reported uncorrectable after the
\* root search found some roots but not v of them
C26_Witness ==
    /\ op = "decode" /\ raised = "" /\ rs.systematic /\ rs.k >= 1 /\ rs.t >= 1
    /\ Ndim(received) = 1
    /\ decoded.N_errors = -1
    /\ \E i \in 1 .. rs.k : errors[1][i] # 0
    /\ Len(BERLEKAMP_MASSEY(rs.field, SyndromeOfRow(1))) - 1 <= rs.t
    /\ Len(POLY_ROOTS(rs.field, BERLEKAMP_MASSEY(rs.field, Reverse(SyndromeOfRow(1))),
                      primitive_element(rs.field))) >= 1

\* the roots POLY_ROOTS finds for sigma_rev of row r, each with its power of
\* alpha (none for a row with zero syndrome, which is not searched)
RootsOfRow(r) ==
    IF NonZero(SyndromeOfRow(r))
    THEN POLY_ROOTS(rs.field, BERLEKAMP_MASSEY(rs.field, Reverse(SyndromeOfRow(r))),
                    primitive_element(rs.field))
    ELSE <<>>

\* the indices (from 0) of the symbols of row r the channel changed, and of those
\* decode_calculate changed
CorruptedIndices(r) == {i \in 0 .. (rs.n - 1) : errors[r][i + 1] # 0}

WrittenIndices(r, calculated) ==
    {i \in 0 .. (rs.n - 1) : calculated.value[i + 1] # ReceivedWord(r)[i + 1]}

\* j with alpha^j = x, for x # 0
DiscreteLog(q, x) == CHOOSE j \in 0 .. (q - 2) : POWER(q, primitive_element(q), j) = x

\* C27 as claimed: for each root beta of sigma_rev the inverse of beta is the
\* error locator alpha^j and the symbol corrected is the one at index n-1-j
C27_InverseLocator ==
    (op = "decode" /\ Weight(errors[1]) <= rs.t) =>
        \A calculated \in {CalculatedRow(1)}, roots \in {RootsOfRow(1)} :
            \A x \in 1 .. Len(roots) :
                /\ ~IsRaised(calculated)
                /\ (rs.n - 1 - DiscreteLog(rs.field, RECIPROCAL(rs.field, roots[x][1])))
                       \in WrittenIndices(1, calculated)

\* C27: for each root beta found for sigma_rev, beta itself is the error
\* locator alpha^j, j being the power POLY_ROOTS returns with it, and the symbol
\* corrected is the one at index n-1-j; for every error pattern of weight <= t
\* the indices written are exactly the corrupted positions
C27_Locator ==
    (op = "decode") =>
        \A r \in 1 .. Len(errors) :
            (Weight(errors[r]) <= rs.t) =>
                \A calculated \in {CalculatedRow(r)}, roots \in {RootsOfRow(r)} :
                    /\ ~IsRaised(calculated)
                    /\ WrittenIndices(r, calculated) = CorruptedIndices(r)
                    /\ Len(roots) = Weight(errors[r])
                    /\ \A x \in 1 .. Len(roots) :
                           /\ roots[x][1]
                                  = POWER(rs.field, primitive_element(rs.field), roots[x][2])
                           /\ (rs.n - 1 - roots[x][2]) \in CorruptedIndices(r)

\* t >= 1 errors corrected, one of them at a locator that is not its own inverse
C27_Witness ==
    /\ op = "decode" /\ raised = "" /\ Ndim(received) = 1
    /\ rs.t >= 1 /\ Weight(errors[1]) = rs.t
    /\ decoded.N_errors = rs.t
    /\ \E roots \in {RootsOfRow(1)} :
           \E x \in 1 .. Len(roots) : RECIPROCAL(rs.field, roots[x][1]) # roots[x][1]

\* a + a + ... + a, d times, in GF(q)
RECURSIVE Repeated(_, _, _)
Repeated(q, d, a) == IF d = 0 THEN 0 ELSE ADD(q, Repeated(q, d - 1, a), a)

\* C28: sigma' is the formal derivative of sigma in characteristic p: it has v
\* coefficients for v = deg(sigma), the one taken from the degree-d term is
\* d * sigma_d (sigma_d added d times), and it is 0 whenever d is a multiple of p
C28_Derivative ==
    (op = "sigma_prime") =>
        /\ Len(decoded) = Len(message.data) - 1
        /\ \A j \in 1 .. Len(decoded) :
               /\ decoded[j] = Repeated(message.field, Len(decoded) - (j - 1), message.data[j])
               /\ ((Len(decoded) - (j - 1)) % Characteristic(message.field) = 0)
                      => decoded[j] = 0

\* sigma of degree 3 over GF(4) whose x^2 coefficient is not 0: the derivative
\* keeps the x^3 and x terms and drops the x^2 term
C28_Witness ==
    /\ op = "sigma_prime" /\ message.field = 4 /\ Len(message.data) = 4
    /\ message.data[2] # 0 /\ decoded[2] = 0
    /\ message.data[1] # 0 /\ decoded[1] = message.data[1]
    /\ decoded[3] = message.data[3]

\* the first n symbols of a row of dec_codeword, as a word of the code
CorrectedWord(calculated) == Vector(rs.field, Slice(calculated.value, 0, rs.n))

\* C30: whenever decode reports a count v >= 0 for a received word (also for a
\* miscorrected word with more than t errors), the corrected word has an
\* all-zero syndrome against H and differs from the received word in at most v
\* positions
C30_CorrectedIsCodeword ==
    (op = "decode" /\ raised = "") =>
        \A r \in 1 .. Len(errors) :
            (CountOfRow(r) >= 0) =>
                \A calculated \in {CalculatedRow(r)} :
                    /\ IsZero(matmul(CorrectedWord(calculated), Transpose(rs.H)))
                    /\ Cardinality(WrittenIndices(r, calculated)) <= CountOfRow(r)

\* the fields other than cls that compiled their kernels with numba
OtherCompiled(cls) ==
    {other \in JITFields \ {cls} : module.funcs[other]["matmul"].compiled = "numba"}

\* C29: kernels of different fields do not interfere: whatever fields have
\* compiled their functions since, in whatever order, a field's matmul,
\* convolve, poly_divmod and poly_evaluate compute with that field's own add,
\* subtract, multiply and divide, although every compile overwrites the module
\* globals the kernel bodies name
C29_NoInterference ==
    (op \in JITKernels) =>
        decoded = IF op = "poly_evaluate" /\ module.funcs[message.field][op].compiled = "vectorize"
                  THEN poly_evaluate_vectorized(message.field, message.data, received.data)
                  ELSE jit_kernel(op, message.field, message.data, received.data)

\* a kernel of one field called while the globals are bound to another field's
\* operators, with a result the other field's arithmetic would not give
C29_Witness ==
    /\ op \in JITKernels
    /\ module.funcs[message.field][op].compiled = "numba"
    /\ module.globals \notin {0, message.field}
    /\ OtherCompiled(message.field) # {}
    /\ decoded # jit_kernel(op, module.globals, message.data, received.data)

====
